---- MODULE Spec2Model ----
(***************************************************************************)
(* ts-safe: the Safe chain (core.ts), its SafeResult fold (result.ts) and  *)
(* the constructors, as a state machine.  A run builds chains with the     *)
(* constructors and the chain methods; the promises that callbacks return  *)
(* settle in later steps.                                                  *)
(***************************************************************************)
EXTENDS Integers, Sequences, FiniteSets, TLC

\* How many chains (createChain calls that reach the caller or orElse) a run builds.
MaxChains == 3
\* The numbers 0..MaxNum and the arrays of at most MaxItems items are the
\* serializable values handed to safeResult.fail and safeResult.ok.
MaxNum == 1
MaxItems == 2
\* Promises resolved with promises: how deep, and in chains of how many steps.
MaxDepth == 2
MaxNestedChains == 3
\* How many chains a run with branches (several chains derived from one) builds.
MaxBranchChains == 3
\* How many transformers safePipe is given.
MaxTransformers == 3

----------------------------------------------------------------------------
(* Values.  A JavaScript value that is not promise-like is a string here;   *)
(* "undefined" is the JavaScript undefined.                                 *)

Undefined == "undefined"
\* The code never inspects or compares the values it carries, so every producer
\* (the function or input of step j) yields a value of its own.
ValueOf(j) == "v" \o ToString(j)

(* Values that can be thrown or be a rejection reason (ErrorLike).          *)
(* kind "Error": an Error object with that message; "string": a string;     *)
(* "object": a value JSON.stringify serializes; "circular": a value         *)
(* JSON.stringify rejects with a TypeError.  "object" (msg m) is the object  *)
(* {code: m}; "null", "boolean", "number", "array" are the JSON values;      *)
(* "toJSON" is an object whose toJSON method throws t; "undefined" is the   *)
(* JavaScript undefined.                                                    *)
Err(m) == [kind |-> "Error", msg |-> m]
Str(m) == [kind |-> "string", msg |-> m]
Obj(m) == [kind |-> "object", msg |-> m]
Circular == [kind |-> "circular", msg |-> "cyc"]
NoError == [kind |-> "undefined", msg |-> ""]
Null == [kind |-> "null"]
Bool(b) == [kind |-> "boolean", b |-> b]
Num(n) == [kind |-> "number", n |-> n]
Arr(items) == [kind |-> "array", items |-> items]
ThrowingToJSON(t) == [kind |-> "toJSON", t |-> t]

\* What the function of step j throws or rejects with: an Error or a string.
Raised(j) == {Err("e" \o ToString(j)), Str("s" \o ToString(j))}

\* The JSON text of a value JSON.stringify serializes.  An Error has no
\* enumerable property of its own.
RECURSIVE JSONtext(_)
RECURSIVE JSONitems(_)
JSONitems(items) ==
  IF Len(items) = 0 THEN ""
  ELSE IF Len(items) = 1 THEN JSONtext(Head(items))
  ELSE JSONtext(Head(items)) \o "," \o JSONitems(Tail(items))

JSONtext(x) ==
  CASE x.kind = "null" -> "null"
    [] x.kind = "boolean" -> IF x.b THEN "true" ELSE "false"
    [] x.kind = "number" -> ToString(x.n)
    [] x.kind = "string" -> "\"" \o x.msg \o "\""
    [] x.kind = "array" -> "[" \o JSONitems(x.items) \o "]"
    [] x.kind = "object" -> "{\"code\":\"" \o x.msg \o "\"}"
    [] x.kind = "Error" -> "{}"

\* JSON.stringify: the text (undefined for undefined), or what it throws: a
\* TypeError on a circular structure, or whatever the value's toJSON throws.
JSONstringify(x) ==
  IF x.kind = "circular"
    THEN [threw |-> TRUE, text |-> "", exc |-> Err("TypeError: circular structure")]
  ELSE IF x.kind = "toJSON" THEN [threw |-> TRUE, text |-> "", exc |-> x.t]
  ELSE IF x.kind = "undefined" THEN [threw |-> FALSE, text |-> Undefined, exc |-> NoError]
  ELSE [threw |-> FALSE, text |-> JSONtext(x), exc |-> NoError]

\* new Error(message): an undefined message is the empty message.
NewError(message) == Err(IF message = Undefined THEN "" ELSE message)

\* Mutant of normalizeError: a string is serialized like any other value.
normalizeErrorNoString(error) ==
  IF error.kind = "Error" THEN error
  ELSE LET s == JSONstringify(error)
       IN IF s.threw THEN s.exc ELSE NewError(s.text)

normalizeError(error) ==
  IF error.kind = "Error" THEN error
  ELSE IF error.kind = "string" THEN Err(error.msg)
  ELSE LET s == JSONstringify(error)
       IN IF s.threw THEN s.exc ELSE NewError(s.text)

ok(value) == [isOk |-> TRUE, error |-> NoError, value |-> value]

\* Mutant of fail: the error is stored as it was raised.
failRaw(error) == [isOk |-> FALSE, error |-> error, value |-> Undefined]

fail(error) == [isOk |-> FALSE, error |-> normalizeError(error), value |-> Undefined]

\* Placeholder for the SafeResult of a promise that has not resolved yet.
NoResult == [isOk |-> FALSE, error |-> NoError, value |-> Undefined]

----------------------------------------------------------------------------
(* What a call of a function does: it returns a plain value, throws, or     *)
(* returns a promise that later resolves or rejects, or (for flatMap's      *)
(* transform) returns a Safe.                                               *)

Returns(v) == [kind |-> "value", settle |-> "none", v |-> v, x |-> NoError, async |-> FALSE]
Throws(x) == [kind |-> "throw", settle |-> "none", v |-> Undefined, x |-> x, async |-> FALSE]
Resolving(v) == [kind |-> "promise", settle |-> "resolve", v |-> v, x |-> NoError, async |-> TRUE]
Rejecting(x) == [kind |-> "promise", settle |-> "reject", v |-> Undefined, x |-> x, async |-> TRUE]
\* A Safe returned by flatMap's transform: immediate or pending, success or failure.
SafeOk(async, v) == [kind |-> "safe", settle |-> "resolve", v |-> v, x |-> NoError, async |-> async]
SafeFail(async, e) == [kind |-> "safe", settle |-> "reject", v |-> Undefined, x |-> e, async |-> async]
NoOutcome == [kind |-> "none", settle |-> "none", v |-> Undefined, x |-> NoError, async |-> FALSE]

isPromiseLike(x) == x.kind = "promise"

\* What the user's function of step j (transform, effectFn, consumer, handler,
\* thunk) may do.
CallbackOutcomes(j) ==
  {Returns(ValueOf(j)), Resolving(ValueOf(j))}
    \cup {Throws(x) : x \in Raised(j)} \cup {Rejecting(x) : x \in Raised(j)}

\* What flatMap's transform may do: throw, return a Safe, or return something else.
TransformOutcomes(j) ==
  {Throws(x) : x \in Raised(j)}
    \cup {SafeOk(a, ValueOf(j)) : a \in BOOLEAN}
    \cup {SafeFail(a, Err("e" \o ToString(j))) : a \in BOOLEAN}
    \cup {Returns(ValueOf(j))}

\* The values safeValue and orElse are given: a plain value or a promise.
ValueInputs(j) ==
  {Returns(ValueOf(j)), Resolving(ValueOf(j))} \cup {Rejecting(x) : x \in Raised(j)}

----------------------------------------------------------------------------
(* The `result` a chain is created around: a SafeResult (kind "result") or  *)
(* a Promise<SafeResult> (kind "promise").  wait tells what a promise still *)
(* waits for: "prev" (the previous chain's promise), "cb" (the promise the  *)
(* callback returned, kept in aw) or "none" (it has resolved to res).       *)
(* called/arg/out record the user callback's invocation and calls how many  *)
(* times it was invoked; thrown is what the call raised to its caller.      *)

Handle(kind, wait, res, aw, c) ==
  [kind |-> kind, wait |-> wait, res |-> res, aw |-> aw,
   called |-> c.called, calls |-> c.calls, arg |-> c.arg, out |-> c.out, thrown |-> NoError]

\* The bookkeeping of a callback that was not (yet) run.
NotRun == [called |-> FALSE, calls |-> 0, arg |-> NoResult, out |-> NoOutcome, next |-> NoOutcome]

\* next.then(v => ok(v), e => fail(e)) and .then(ok, fail): the promise settles.
\* A promise resolved with another promise p: it settles as p does.
Nested(p) ==
  [kind |-> "promise", settle |-> "adopt", v |-> Undefined, x |-> NoError, async |-> TRUE,
   inner |-> p]

\* The promise whose settlement a promise ends up with.
RECURSIVE Innermost(_)
Innermost(p) == IF p.settle = "adopt" THEN Innermost(p.inner) ELSE p

\* A success value that is itself a pending value.
PromiseValue == "[object Promise]"

\* Mutant of settle: the reaction runs with what the promise was resolved with,
\* a promise included.
settleShallow(aw) ==
  IF aw.settle = "adopt" THEN ok(PromiseValue)
  ELSE IF aw.settle = "resolve" THEN ok(aw.v) ELSE fail(aw.x)

\* Mutant of settle: then(ok) with no rejection handler, so the promise of the
\* result rejects with the reason instead of resolving to a failure.
settlePassing(aw) ==
  LET p == Innermost(aw)
  IN IF p.settle = "resolve" THEN ok(p.v) ELSE [rejected |-> p.x]

settle(aw) ==
  LET p == Innermost(aw)
  IN IF p.settle = "resolve" THEN ok(p.v) ELSE fail(p.x)

\* Mutant of unwrap: the pending form yields the value field without the isOk test.
unwrapValueOnly(result) ==
  IF isPromiseLike(result)
    THEN IF result.wait # "none"
           THEN [kind |-> "promise", settle |-> "none", v |-> Undefined, x |-> NoError, async |-> TRUE]
           ELSE Resolving(result.res.value)
    ELSE IF result.res.isOk THEN Returns(result.res.value)
         ELSE Throws(result.res.error)

\* unwrap(): what the call does, given the chain's result.
unwrap(result) ==
  IF isPromiseLike(result)
    THEN IF result.wait # "none"
           THEN [kind |-> "promise", settle |-> "none", v |-> Undefined, x |-> NoError, async |-> TRUE]
           ELSE IF result.res.isOk THEN Resolving(result.res.value)
                ELSE Rejecting(result.res.error)
    ELSE IF result.res.isOk THEN Returns(result.res.value)
         ELSE Throws(result.res.error)

\* The isOk property: a boolean, or a promise of one ("true"/"false" as values).
BoolValue(b) == IF b THEN "true" ELSE "false"
\* Mutant of isOk: the pending form is derived as unwrap's is, and rejects on a failure.
isOkRejecting(result) ==
  IF isPromiseLike(result)
    THEN IF result.wait # "none"
           THEN [kind |-> "promise", settle |-> "none", v |-> Undefined, x |-> NoError, async |-> TRUE]
           ELSE IF result.res.isOk THEN Resolving("true") ELSE Rejecting(result.res.error)
    ELSE Returns(BoolValue(result.res.isOk))

isOk(result) ==
  IF isPromiseLike(result)
    THEN IF result.wait # "none"
           THEN [kind |-> "promise", settle |-> "none", v |-> Undefined, x |-> NoError, async |-> TRUE]
           ELSE Resolving(BoolValue(result.res.isOk))
    ELSE Returns(BoolValue(result.res.isOk))

\* The result inside a Safe that flatMap's transform returned.
InnerResult(u) ==
  [kind |-> IF u.async THEN "promise" ELSE "result", wait |-> "none",
   res |-> IF u.settle = "resolve" THEN ok(u.v)
           ELSE [isOk |-> FALSE, error |-> u.x, value |-> Undefined],
   aw |-> NoOutcome]

----------------------------------------------------------------------------
(* The callback each chain method hands to next().  prev is the previous    *)
(* SafeResult, u what the user's function does when it is invoked.          *)

\* arg: the SafeResult whose value (transform, effectFn), error (handler) or copy
\* (consumer) the user's function received.
Called(arg, u, next) == [called |-> TRUE, calls |-> 1, arg |-> arg, out |-> u, next |-> next]
Skipped(next) == [called |-> FALSE, calls |-> 0, arg |-> NoResult, out |-> NoOutcome, next |-> next]

\* Mutant of map: the transform runs without the isOk test.
mapAlways(prev, u) == Called(ok(prev.value), u, u)

map(prev, u) ==
  IF prev.isOk THEN Called(ok(prev.value), u, u)
  ELSE Skipped(Throws(prev.error))

\* Mutant of flatMap: what the transform returned is taken as map takes it.
flatMapAsMap(prev, u) ==
  IF prev.isOk THEN Called(ok(prev.value), u, u)
  ELSE Skipped(Throws(prev.error))

flatMap(prev, u) ==
  IF prev.isOk
    THEN Called(ok(prev.value), u,
                IF u.kind = "throw" THEN u
                ELSE IF u.kind = "safe" THEN unwrap(InnerResult(u))
                ELSE Throws(Err("TypeError: unwrap is not a function")))
    ELSE Skipped(Throws(prev.error))

\* Mutant of effect: a promise effectFn returned is not waited for.
effectNoWait(prev, u) ==
  IF ~prev.isOk THEN Skipped(Throws(prev.error))
  ELSE Called(ok(prev.value), u, IF u.kind = "throw" THEN u ELSE Returns(prev.value))

\* Mutant of effect: the chain takes what effectFn returned.
effectAsMap(prev, u) ==
  IF ~prev.isOk THEN Skipped(Throws(prev.error))
  ELSE Called(ok(prev.value), u, u)

effect(prev, u) ==
  IF ~prev.isOk THEN Skipped(Throws(prev.error))
  ELSE Called(ok(prev.value), u,
              IF u.kind = "throw" THEN u
              ELSE IF isPromiseLike(u)
                     THEN IF u.settle = "resolve" THEN Resolving(prev.value) ELSE u
                     ELSE Returns(prev.value))

\* Mutant of ifOk: what effectFn raises or rejects with is dropped.
ifOkSwallow(prev, u) ==
  IF ~prev.isOk THEN Skipped(Throws(prev.error))
  ELSE Called(ok(prev.value), u,
              IF isPromiseLike(u) THEN Resolving(prev.value) ELSE Returns(prev.value))

ifOk(prev, u) ==
  IF ~prev.isOk THEN Skipped(Throws(prev.error))
  ELSE Called(ok(prev.value), u,
              IF u.kind = "throw" THEN u
              ELSE IF isPromiseLike(u)
                     THEN IF u.settle = "resolve" THEN Resolving(prev.value) ELSE u
                     ELSE Returns(prev.value))

\* A consumer that overwrites a field of the object it is given, and returns
\* nothing.
Overwriting(field) ==
  [kind |-> "value", settle |-> "none", v |-> Undefined, x |-> NoError, async |-> FALSE,
   sets |-> field]

\* The object a function was given, after the function ran.
written(object, u) ==
  IF "sets" \notin DOMAIN u THEN object
  ELSE IF u.sets = "isOk" THEN [object EXCEPT !.isOk = ~object.isOk]
  ELSE IF u.sets = "value" THEN [object EXCEPT !.value = "overwritten"]
  ELSE [object EXCEPT !.error = Err("overwritten")]

\* Mutant of watch: the consumer is given prev itself, not a copy.
watchShared(prev, u) ==
  LET mine == written(prev, u)
  IN Called(prev, u, IF mine.isOk THEN Returns(mine.value) ELSE Throws(mine.error))

\* Mutant of watch: the consumer runs outside the try/catch.
watchUnguarded(prev, u) ==
  Called(prev, u,
         IF u.kind = "throw" THEN u
         ELSE IF prev.isOk THEN Returns(prev.value) ELSE Throws(prev.error))

\* Mutant of watch: the consumer is given successes only.
watchOkOnly(prev, u) ==
  IF prev.isOk THEN Called(prev, u, Returns(prev.value))
  ELSE Skipped(Throws(prev.error))

\* Mutant of watch: a pending value the consumer returns is waited for.
watchAwaiting(prev, u) ==
  Called(prev, u,
         IF isPromiseLike(u)
           THEN IF prev.isOk THEN Resolving(prev.value) ELSE Rejecting(prev.error)
           ELSE IF prev.isOk THEN Returns(prev.value) ELSE Throws(prev.error))

watch(prev, u) ==
  Called(prev, u, IF prev.isOk THEN Returns(prev.value) ELSE Throws(prev.error))

\* Mutant of catch: the handler runs without the isOk test.
catchAlways(prev, u) == Called(prev, u, u)

\* Mutant of catch: a handler that raises leaves the original error in place.
catchKeepOriginal(prev, u) ==
  IF ~prev.isOk
    THEN Called(prev, u,
                IF u.kind = "throw" \/ (isPromiseLike(u) /\ u.settle = "reject")
                  THEN Throws(prev.error) ELSE u)
    ELSE Skipped(Returns(prev.value))

catch(prev, u) ==
  IF ~prev.isOk THEN Called(prev, u, u)
  ELSE Skipped(Returns(prev.value))

\* Mutant of ifFail: the handler only observes, the failure stays.
ifFailObserve(prev, u) ==
  IF ~prev.isOk THEN Called(prev, u, IF u.kind = "throw" THEN u ELSE Throws(prev.error))
  ELSE Skipped(Returns(prev.value))

ifFail(prev, u) ==
  IF ~prev.isOk THEN Called(prev, u, u)
  ELSE Skipped(Returns(prev.value))

\* orElse's callback: the fallback is a value, not a function.
\* out records the fallback when it is what the callback returned.
orElseCallback(prev, fallback) ==
  IF ~prev.isOk
    THEN [called |-> FALSE, calls |-> 0, arg |-> NoResult, out |-> fallback, next |-> fallback]
    ELSE Skipped(Returns(prev.value))

----------------------------------------------------------------------------
(* The fold.  A callback handed to update is the closure of a chain method  *)
(* over the user's function: op names the method, u what the user's         *)
(* function does when it is invoked.                                        *)

CallbackOf(op, prev, u) ==
  CASE op = "map" -> map(prev, u)
    [] op = "flatMap" -> flatMap(prev, u)
    [] op = "effect" -> effect(prev, u)
    [] op = "ifOk" -> ifOk(prev, u)
    [] op = "watch" -> watch(prev, u)
    [] op = "catch" -> catch(prev, u)
    [] op = "ifFail" -> ifFail(prev, u)
    [] op = "orElse" -> orElseCallback(prev, u)

\* prev.then(cb).then(ok, fail), run when prev has resolved to prevRes.
thenUpdate(prevRes, op, u) ==
  LET c == CallbackOf(op, prevRes, u)
      next == c.next
  IN IF next.kind = "throw" THEN Handle("promise", "none", fail(next.x), NoOutcome, c)
     ELSE IF isPromiseLike(next) THEN Handle("promise", "cb", NoResult, next, c)
     ELSE Handle("promise", "none", ok(next.v), NoOutcome, c)

\* Mutant of update: the callback runs outside the try/catch.
updateUnguarded(prev, op, u) ==
  IF isPromiseLike(prev) THEN Handle("promise", "prev", NoResult, NoOutcome, NotRun)
  ELSE LET c == CallbackOf(op, prev.res, u)
           next == c.next
       IN IF next.kind = "throw"
            THEN [Handle("result", "none", NoResult, NoOutcome, c) EXCEPT !.thrown = next.x]
          ELSE IF isPromiseLike(next) THEN Handle("promise", "cb", NoResult, next, c)
          ELSE Handle("result", "none", ok(next.v), NoOutcome, c)

\* Mutant of update: a promise that has already resolved is folded synchronously.
updateResolvedEagerly(prev, op, u) ==
  IF isPromiseLike(prev) /\ prev.wait # "none"
    THEN Handle("promise", "prev", NoResult, NoOutcome, NotRun)
  ELSE LET c == CallbackOf(op, prev.res, u)
           next == c.next
       IN IF next.kind = "throw" THEN Handle("result", "none", fail(next.x), NoOutcome, c)
          ELSE IF isPromiseLike(next) THEN Handle("promise", "cb", NoResult, next, c)
          ELSE Handle("result", "none", ok(next.v), NoOutcome, c)

\* Mutant of update: the callback's return value is wrapped without the
\* isPromiseLike test.
updateNoPromiseTest(prev, op, u) ==
  IF isPromiseLike(prev) THEN Handle("promise", "prev", NoResult, NoOutcome, NotRun)
  ELSE LET c == CallbackOf(op, prev.res, u)
           next == c.next
       IN IF next.kind = "throw" THEN Handle("result", "none", fail(next.x), NoOutcome, c)
          ELSE Handle("result", "none", ok(next.v), NoOutcome, c)

update(prev, op, u) ==
  IF isPromiseLike(prev) THEN Handle("promise", "prev", NoResult, NoOutcome, NotRun)
  ELSE LET c == CallbackOf(op, prev.res, u)
           next == c.next
       IN IF next.kind = "throw" THEN Handle("result", "none", fail(next.x), NoOutcome, c)
          ELSE IF isPromiseLike(next) THEN Handle("promise", "cb", NoResult, next, c)
          ELSE Handle("result", "none", ok(next.v), NoOutcome, c)

----------------------------------------------------------------------------
(* State.  chains: the chains built so far, in creation order; chain i's    *)
(* parent is the chain its method was called on (0 for a constructor).      *)
(* raised: what the latest call of the API raised to its caller, and which  *)
(* call it was; NoRaise when the latest call returned.                      *)
(* given, made: a value handed to safeResult.ok or safeResult.fail, and the *)
(* SafeResult that call returned (NotMade before the call).                 *)
(* In SafeSpec given is the argument safe() was called with.               *)
(* tries: the invocations of fn made by a function retry() returned, in    *)
(* order, each with its argument and its outcome.                           *)
(* run: the activation of that function: its place in the loop, i,         *)
(* maxTries, lastError and how its promise settled.                         *)
(* checked: a validator built by errorIfNull, errorIfFalsy, errorIfEmpty or *)
(* errorIf, the value it was applied to and what the call did.              *)
(* settled: the chains whose callback returned a promise that has settled,  *)
(* where a specification tells that event from the chain's own settling.    *)
(* reads: the reads (unwrap(), isOk, orElse) a specification records, in     *)
(* order, each with the chain it read and what it got.                      *)

VARIABLES chains, raised, given, made, tries, run, checked, settled, reads

vars == <<chains, raised, given, made, tries, run, checked, settled, reads>>
resultVars == <<given, made>>
retryVars == <<tries, run>>

NotMade == [isOk |-> FALSE, error |-> NoError, value |-> Undefined, made |-> FALSE]
NotChecked == [validator |-> "none", configured |-> [given |-> FALSE, text |-> ""], check |-> NoError,
               value |-> NoError, out |-> NoOutcome]
NotCalled == [pc |-> "idle", i |-> 0, maxTries |-> 0, arg |-> Undefined,
              lastError |-> NoError, result |-> Undefined,
              delay |-> 0, useBackoff |-> FALSE, waits |-> <<>>]

Methods == {"map", "flatMap", "effect", "ifOk", "watch", "catch", "ifFail"}

UserOutcomes(op, j) == IF op = "flatMap" THEN TransformOutcomes(j) ELSE CallbackOutcomes(j)

\* createChain(result): the chain object around result.  fallback is what an
\* orElse callback that has not run yet will return.
createChain(op, parent, fallback, result) ==
  [op |-> op, parent |-> parent,
   fb |-> IF result.wait = "prev" THEN fallback ELSE NoOutcome,
   kind |-> result.kind, wait |-> result.wait, res |-> result.res, aw |-> result.aw,
   called |-> result.called, calls |-> result.calls, arg |-> result.arg, out |-> result.out]

\* next(cb) of the chain around result: safeResult.update(result, cb).
next(result, op, u) == update(result, op, u)

\* createChain(safeResult.ok(undefined)), the chain the constructors start from.
EmptyResult ==
  [kind |-> "result", wait |-> "none", res |-> ok(Undefined), aw |-> NoOutcome,
   called |-> FALSE, calls |-> 0, arg |-> NoResult, out |-> NoOutcome, thrown |-> NoError]

\* Mutant of safeValue: the value is wrapped as it is, with no fold.
safeValueExact(value) ==
  Handle("result", "none", ok(value.v), NoOutcome, Called(ok(Undefined), value, value))

safeValue(value) ==
  LET r == next(EmptyResult, "map", value)
  IN IF r.thrown = NoError THEN r ELSE next(EmptyResult, "map", Throws(r.thrown))

\* Mutant of safeExec: fn is kept for later and the chain starts empty.
safeExecLazy(fn) == EmptyResult

safeExec(fn) ==
  LET r == next(EmptyResult, "map", fn)
  IN IF r.thrown = NoError THEN r ELSE next(EmptyResult, "map", Throws(r.thrown))

safeEmpty == EmptyResult

NoRaise == [op |-> "none", thrown |-> NoError]
Call(op, thrown) == IF thrown = NoError THEN NoRaise ELSE [op |-> op, thrown |-> thrown]

\* Mutant of Returned: the new result is also written into the result of the
\* chain the method was called on.
ReturnedShared(op, parent, fallback, r) ==
  IF r.thrown = NoError
    THEN /\ chains' = Append(IF parent >= 1 /\ r.wait = "none"
                               THEN [chains EXCEPT ![parent].res = r.res]
                               ELSE chains,
                             createChain(op, parent, fallback, r))
         /\ raised' = Call(op, NoError)
         /\ UNCHANGED <<resultVars, retryVars, checked, settled, reads>>
    ELSE /\ chains' = chains
         /\ raised' = Call(op, r.thrown)
         /\ UNCHANGED <<resultVars, retryVars, checked, settled, reads>>

\* A call that returns a chain appends it; one that raises appends nothing.
Returned(op, parent, fallback, r) ==
  IF r.thrown = NoError
    THEN /\ chains' = Append(chains, createChain(op, parent, fallback, r))
         /\ raised' = Call(op, NoError)
         /\ UNCHANGED <<resultVars, retryVars, checked, settled, reads>>
    ELSE /\ chains' = chains
         /\ raised' = Call(op, r.thrown)
         /\ UNCHANGED <<resultVars, retryVars, checked, settled, reads>>

Init ==
  /\ chains = <<>>
  /\ raised = NoRaise
  /\ given = NoError
  /\ made = NotMade
  /\ tries = <<>>
  /\ run = NotCalled
  /\ checked = NotChecked
  /\ settled = {}
  /\ reads = <<>>

SafeValue ==
  /\ chains = <<>>
  /\ \E value \in ValueInputs(1) : Returned("safeValue", 0, NoOutcome, safeValue(value))

SafeExec ==
  /\ chains = <<>>
  /\ \E fn \in CallbackOutcomes(1) : Returned("safeExec", 0, NoOutcome, safeExec(fn))

SafeEmpty ==
  /\ chains = <<>>
  /\ Returned("safeEmpty", 0, NoOutcome, safeEmpty)

\* The chains a caller holds: orElse's inner chain never leaves orElse.
Held == {i \in 1..Len(chains) : chains[i].op # "orElse"}

\* chain.map(f), chain.flatMap(f), ... on a held chain.
Method(i, op) ==
  /\ Len(chains) < MaxChains
  /\ \E u \in UserOutcomes(op, Len(chains) + 1) :
       Returned(op, i, NoOutcome, next(chains[i], op, u))

\* chain.orElse(fallback): next(cb).unwrap().
OrElse(i) ==
  /\ Len(chains) < MaxChains
  /\ \E fallback \in ValueInputs(Len(chains) + 1) :
       LET r == next(chains[i], "orElse", fallback)
           inner == createChain("orElse", i, fallback, r)
           got == unwrap(inner)
       IN /\ chains' = Append(chains, inner)
          /\ raised' = Call("orElse", IF got.kind = "throw" THEN got.x ELSE NoError)
          /\ UNCHANGED <<resultVars, retryVars, checked, settled, reads>>

\* chain.unwrap()
Unwrap(i) ==
  LET got == unwrap(chains[i])
  IN /\ raised' = Call("unwrap", IF got.kind = "throw" THEN got.x ELSE NoError)
     /\ UNCHANGED <<chains, given, made, retryVars, checked, settled, reads>>

\* Mutant of Continue: the continuation runs without waiting for the previous
\* chain's promise.
ContinueEarly(j) ==
  /\ chains[j].wait = "prev"
  /\ \E u \in (IF chains[j].op = "orElse" THEN {chains[j].fb}
               ELSE UserOutcomes(chains[j].op, j)) :
       LET c == chains[j]
           r == thenUpdate(chains[c.parent].res, c.op, u)
       IN chains' = [chains EXCEPT ![j] = createChain(c.op, c.parent, c.fb, r)]
  /\ UNCHANGED <<raised, given, made, retryVars, checked, settled, reads>>

\* The previous chain's promise has resolved: the continuation of line 59 runs.
Continue(j) ==
  /\ chains[j].wait = "prev"
  /\ chains[chains[j].parent].wait = "none"
  /\ \E u \in (IF chains[j].op = "orElse" THEN {chains[j].fb}
               ELSE UserOutcomes(chains[j].op, j)) :
       LET c == chains[j]
           r == thenUpdate(chains[c.parent].res, c.op, u)
       IN chains' = [chains EXCEPT ![j] = createChain(c.op, c.parent, c.fb, r)]
  /\ UNCHANGED <<raised, given, made, retryVars, checked, settled, reads>>

\* The promise a callback returned settles.
SettleCallback(j) ==
  /\ chains[j].wait = "cb"
  /\ chains' = [chains EXCEPT ![j].wait = "none", ![j].res = settle(chains[j].aw),
                              ![j].aw = NoOutcome]
  /\ UNCHANGED <<raised, given, made, retryVars, checked, settled, reads>>

\* Calls are made on the chain built last (one chain sequence).
Tip == {i \in Held : \A k \in Held : k <= i}

Next ==
  \/ SafeValue
  \/ SafeExec
  \/ SafeEmpty
  \/ \E i \in Tip : \E op \in Methods : Method(i, op)
  \/ \E i \in Tip : OrElse(i)
  \/ \E i \in Tip : Unwrap(i)
  \/ \E j \in 1..Len(chains) : Continue(j)
  \/ \E j \in 1..Len(chains) : SettleCallback(j)

Spec == Init /\ [][Next]_vars

----------------------------------------------------------------------------
(* safeResult.ok and safeResult.fail on their own (result.ts), over the     *)
(* values a caller can hand them.                                           *)

Messages == {"", "boom", "ERR123"}
Scalars == {Null, Bool(TRUE), Bool(FALSE)} \cup {Num(n) : n \in 0..MaxNum}
Arrays == UNION {[1..n -> Scalars] : n \in 0..MaxItems}

\* ErrorLike: an Error, a string, or anything else.
ErrorLikes ==
  {Err(m) : m \in Messages} \cup {Str(m) : m \in Messages}
    \cup {Obj(m) : m \in Messages} \cup Scalars \cup {Arr(a) : a \in Arrays}
    \cup {Circular, NoError}
    \cup {ThrowingToJSON(t) : t \in {Err("toJSON failed"), Str("toJSON failed"), NoError}}

ResultInit ==
  /\ chains = <<>>
  /\ raised = NoRaise
  /\ given \in ErrorLikes
  /\ made = NotMade
  /\ tries = <<>>
  /\ run = NotCalled
  /\ checked = NotChecked
  /\ settled = {}
  /\ reads = <<>>

\* safeResult.fail(given)
FailResult ==
  /\ made = NotMade
  /\ made' = fail(given)
  /\ UNCHANGED <<chains, raised, given, retryVars, checked, settled, reads>>

\* safeResult.ok(given)
OkResult ==
  /\ made = NotMade
  /\ made' = ok(given)
  /\ UNCHANGED <<chains, raised, given, retryVars, checked, settled, reads>>

ResultNext ==
  \/ FailResult
  \/ OkResult

ResultSpec == ResultInit /\ [][ResultNext]_vars

----------------------------------------------------------------------------
(* Chains made of promises that were resolved with promises: safeValue and  *)
(* map given values and transforms that yield them.                         *)

RECURSIVE NestedOf(_, _)
NestedOf(d, p) == IF d = 0 THEN p ELSE Nested(NestedOf(d - 1, p))

\* A plain value, or a promise under 0..MaxDepth further promises.
NestedInputs(j) ==
  {Returns(ValueOf(j))}
    \cup {NestedOf(d, p) : d \in 0..MaxDepth,
                           p \in {Resolving(ValueOf(j))} \cup {Rejecting(x) : x \in Raised(j)}}

SafeValueNested ==
  /\ chains = <<>>
  /\ \E value \in NestedInputs(1) : Returned("safeValue", 0, NoOutcome, safeValue(value))

MapNested(i) ==
  /\ Len(chains) < MaxNestedChains
  /\ \E u \in NestedInputs(Len(chains) + 1) :
       Returned("map", i, NoOutcome, next(chains[i], "map", u))

ContinueNested(j) ==
  /\ chains[j].wait = "prev"
  /\ chains[chains[j].parent].wait = "none"
  /\ \E u \in NestedInputs(j) :
       LET c == chains[j]
           r == thenUpdate(chains[c.parent].res, c.op, u)
       IN chains' = [chains EXCEPT ![j] = createChain(c.op, c.parent, c.fb, r)]
  /\ UNCHANGED <<raised, given, made, retryVars, checked, settled, reads>>

NestedNext ==
  \/ SafeValueNested
  \/ \E i \in Tip : MapNested(i)
  \/ \E i \in Tip : Unwrap(i)
  \/ \E j \in 1..Len(chains) : ContinueNested(j)
  \/ \E j \in 1..Len(chains) : SettleCallback(j)

NestedSpec == Init /\ [][NestedNext]_vars

----------------------------------------------------------------------------
(* Branches: the methods called on any chain the caller holds, not only on  *)
(* the newest one, so that several chains derive from one.                  *)

\* What the user's function of step j does: it returns, raises, or returns a
\* promise; flatMap's transform returns a chain, a success or a pending failure.
BranchOutcomes(op, j) ==
  IF op = "flatMap"
    THEN {SafeOk(FALSE, ValueOf(j)), SafeFail(TRUE, Err("e" \o ToString(j)))}
    ELSE {Returns(ValueOf(j)), Throws(Err("e" \o ToString(j))), Resolving(ValueOf(j))}

BranchRoot ==
  /\ chains = <<>>
  /\ \E fn \in BranchOutcomes("map", 1) : Returned("safeExec", 0, NoOutcome, safeExec(fn))

BranchMethod(i, op) ==
  /\ Len(chains) < MaxBranchChains
  /\ \E u \in BranchOutcomes(op, Len(chains) + 1) :
       Returned(op, i, NoOutcome, next(chains[i], op, u))

BranchOrElse(i) ==
  /\ Len(chains) < MaxBranchChains
  /\ LET fallback == Returns(ValueOf(Len(chains) + 1))
         r == next(chains[i], "orElse", fallback)
         inner == createChain("orElse", i, fallback, r)
         got == unwrap(inner)
     IN /\ chains' = Append(chains, inner)
        /\ raised' = Call("orElse", IF got.kind = "throw" THEN got.x ELSE NoError)
        /\ UNCHANGED <<resultVars, retryVars, checked, settled, reads>>

BranchContinue(j) ==
  /\ chains[j].wait = "prev"
  /\ chains[chains[j].parent].wait = "none"
  /\ \E u \in (IF chains[j].op = "orElse" THEN {chains[j].fb}
               ELSE BranchOutcomes(chains[j].op, j)) :
       LET c == chains[j]
           r == thenUpdate(chains[c.parent].res, c.op, u)
       IN chains' = [chains EXCEPT ![j] = createChain(c.op, c.parent, c.fb, r)]
  /\ UNCHANGED <<raised, given, made, retryVars, checked, settled, reads>>

BranchNext ==
  \/ BranchRoot
  \/ \E i \in Held : \E op \in Methods : BranchMethod(i, op)
  \/ \E i \in Held : BranchOrElse(i)
  \/ \E i \in Held : Unwrap(i)
  \/ \E j \in 1..Len(chains) : BranchContinue(j)
  \/ \E j \in 1..Len(chains) : SettleCallback(j)

BranchSpec == Init /\ [][BranchNext]_vars

----------------------------------------------------------------------------
(* safePipe (pipe.ts): safePipe(...transformers)(input).  us[k] is what     *)
(* transformer k does if it is invoked inside the call; a transformer that  *)
(* is reached on a pending chain is invoked later, by Continue.             *)

\* Mutant of pipeFrom: every transformer is mapped over the initial chain.
RECURSIVE pipeFromInitial(_, _, _)
pipeFromInitial(built, us, k) ==
  IF k > Len(us) THEN built
  ELSE pipeFromInitial(
         Append(built, createChain("map", 1, NoOutcome, next(built[1], "map", us[k]))),
         us, k + 1)

\* transformers.reduce((chain, transformer) => chain.map(transformer), initialChain),
\* from transformer k on; built holds the chains made so far, the last one
\* being the accumulator.
RECURSIVE pipeFrom(_, _, _)
pipeFrom(built, us, k) ==
  IF k > Len(us) THEN built
  ELSE pipeFrom(
         Append(built, createChain("map", Len(built), NoOutcome,
                                   next(built[Len(built)], "map", us[k]))),
         us, k + 1)

\* The chains safePipe(...)(input) builds: safeValue(input), then the maps.
safePipe(input, us) ==
  pipeFrom(<<createChain("safeValue", 0, NoOutcome, safeValue(input))>>, us, 1)

\* What n transformers may do: transformer k is the function of step k + 1.
TransformerOutcomes(n) ==
  {us \in [1..n -> UNION {CallbackOutcomes(k + 1) : k \in 1..n}] :
     \A k \in 1..n : us[k] \in CallbackOutcomes(k + 1)}

SafePipe ==
  /\ chains = <<>>
  /\ \E input \in ValueInputs(1) : \E n \in 0..MaxTransformers :
       \E us \in TransformerOutcomes(n) :
         chains' = safePipe(input, us)
  /\ raised' = NoRaise
  /\ UNCHANGED <<resultVars, retryVars, checked, settled, reads>>

PipeNext ==
  \/ SafePipe
  \/ \E i \in Tip : Unwrap(i)
  \/ \E j \in 1..Len(chains) : Continue(j)
  \/ \E j \in 1..Len(chains) : SettleCallback(j)

PipeSpec == Init /\ [][PipeNext]_vars

----------------------------------------------------------------------------
(* Properties.                                                              *)

Ids == 1..Len(chains)
HasParent(j) == chains[j].parent >= 1
ParentOf(j) == chains[chains[j].parent]
\* The chain's callback has run (or was skipped): it no longer waits for its parent.
Ran(c) == c.wait # "prev"
Settled(c) == c.wait = "none"
Failed(c) == Settled(c) /\ ~c.res.isOk
Succeeded(c) == Settled(c) /\ c.res.isOk
Failure(e) == [isOk |-> FALSE, error |-> e, value |-> Undefined]

ShortCircuiting == {"map", "flatMap", "effect", "ifOk"}

\* Chain j descends from chain a through map/flatMap/effect/ifOk/watch steps
\* that have all run.
RECURSIVE Through(_, _)
Through(a, j) ==
  IF j = a THEN TRUE
  ELSE /\ HasParent(j)
       /\ chains[j].op \in ShortCircuiting \cup {"watch"}
       /\ Ran(chains[j])
       /\ Through(a, chains[j].parent)

C2_WitnessOk ==
  \E j \in Ids :
    /\ chains[j].op = "watch" /\ chains[j].out.kind = "throw"
    /\ chains[j].kind = "result" /\ Succeeded(chains[j])

\* C3: on a success holding v, effect(f) and ifOk(f) hold v whatever f returns;
\* when f returns a pending value the chain is pending and, once that value
\* has resolved, holds v and not the value f's pending result resolved to.
C3_EffectTransparent ==
  \A j \in Ids :
    (chains[j].op \in {"effect", "ifOk"} /\ chains[j].called)
      => LET v == ParentOf(j).res.value
             f == chains[j].out
         IN /\ chains[j].arg = ok(v)
            /\ f.kind = "value"
                 => /\ chains[j].kind = ParentOf(j).kind
                    /\ Settled(chains[j])
                    /\ chains[j].res = ok(v)
            /\ f.kind = "promise"
                 => /\ chains[j].kind = "promise"
                    /\ unwrap(chains[j]).kind = "promise"
                    /\ (Settled(chains[j]) /\ f.settle = "resolve")
                         => /\ chains[j].res = ok(v)
                            /\ unwrap(chains[j]) = Resolving(v)

\* C3 witness: f returned a pending value that resolved to something other than v.
C3_Witness ==
  \E j \in Ids :
    /\ chains[j].op = "ifOk" /\ chains[j].called
    /\ chains[j].out.kind = "promise" /\ chains[j].out.settle = "resolve"
    /\ ParentOf(j).kind = "result"
    /\ Settled(chains[j]) /\ chains[j].out.v # chains[j].res.value

\* C4: on a failure with error e, catch(h) and ifFail(h) invoke h once, with e,
\* and the chain is a success holding what h returned (the resolved value when
\* h returned a pending value that resolves); on a success h is not invoked,
\* the value passes through and an immediate chain stays immediate.
C4_Recovery ==
  \A j \in Ids :
    (chains[j].op \in {"catch", "ifFail"} /\ Ran(chains[j]))
      => LET prev == ParentOf(j).res
             h == chains[j].out
         IN IF prev.isOk
              THEN /\ ~chains[j].called
                   /\ Settled(chains[j])
                   /\ chains[j].res = prev
                   /\ chains[j].kind = ParentOf(j).kind
              ELSE /\ chains[j].called
                   /\ chains[j].arg = Failure(prev.error)
                   /\ h.kind = "value"
                        => /\ Settled(chains[j])
                           /\ chains[j].res = ok(h.v)
                           /\ chains[j].kind = ParentOf(j).kind
                   /\ (h.kind = "promise" /\ h.settle = "resolve")
                        => /\ chains[j].kind = "promise"
                           /\ Settled(chains[j]) => chains[j].res = ok(h.v)

\* C4 witness: a recovered failure, then a handler skipped on the success.
C4_Witness ==
  \E i \in Ids : \E j \in Ids :
    /\ chains[i].op = "catch" /\ chains[i].called /\ chains[i].out.kind = "value"
    /\ chains[i].kind = "result" /\ Succeeded(chains[i])
    /\ chains[j].op = "ifFail" /\ chains[j].parent = i /\ ~chains[j].called
    /\ chains[j].kind = "result" /\ chains[j].res = chains[i].res

\* C4 witness: an asynchronous handler whose value arrived.
C4_WitnessAsync ==
  \E j \in Ids :
    /\ chains[j].op = "ifFail" /\ chains[j].called
    /\ chains[j].out.kind = "promise" /\ chains[j].out.settle = "resolve"
    /\ Succeeded(chains[j]) /\ chains[j].res.value = chains[j].out.v

Constructors == {"safeValue", "safeExec", "safeEmpty"}

\* What orElse returned for the inner chain j: next(cb).unwrap().
OrElseResult(j) == unwrap(chains[j])

\* C5 (as claimed): orElse never throws synchronously and the pending value it
\* returns never rejects, whatever the chain and the fallback.
C5_OrElseNeverRaises ==
  /\ raised.op # "orElse"
  /\ \A j \in Ids :
       chains[j].op = "orElse"
         => /\ OrElseResult(j).kind # "throw"
            /\ ~(OrElseResult(j).kind = "promise" /\ OrElseResult(j).settle = "reject")

\* C6 (as claimed): orElse returns the success value of a success and the
\* fallback of a failure; on a pending chain a pending value that resolves to
\* the one or the other.  A fallback that is itself a pending value is
\* returned as a pending value that settles as the fallback does.
C6_OrElseValue ==
  \A j \in Ids :
    (chains[j].op = "orElse" /\ Settled(chains[j]))
      => LET prev == ParentOf(j)
             fallback == chains[j].out
         IN IF prev.res.isOk
              THEN OrElseResult(j) = IF prev.kind = "promise" THEN Resolving(prev.res.value)
                                     ELSE Returns(prev.res.value)
              ELSE OrElseResult(j) = IF fallback.kind = "promise" THEN fallback
                                     ELSE IF prev.kind = "promise" THEN Resolving(fallback.v)
                                     ELSE fallback

\* C7: the constructors and the chain methods raise nothing to their caller,
\* whatever the callback raised or returned and whatever the chain's state:
\* a call that raised is a call of unwrap.
C7_OnlyUnwrapRaises ==
  /\ raised.op \notin Constructors \cup Methods
  /\ raised # NoRaise => raised.op = "unwrap"

\* C7 witness: a method whose callback raised synchronously returned a chain,
\* and unwrap of that chain raised the error to the caller.
C7_Witness ==
  /\ Len(chains) >= 2
  /\ chains[Len(chains)].op \in Methods
  /\ chains[Len(chains)].called /\ chains[Len(chains)].out.kind = "throw"
  /\ chains[Len(chains)].kind = "result"
  /\ raised = [op |-> "unwrap", thrown |-> chains[Len(chains)].res.error]

\* Some chain above j in its sequence is pending.
RECURSIVE PendingAbove(_)
PendingAbove(j) ==
  /\ HasParent(j)
  /\ \/ ParentOf(j).kind = "promise"
     \/ PendingAbove(chains[j].parent)

\* C8: a chain is an immediate success, an immediate failure or pending, and
\* once a step of a sequence is pending every chain a later method produces is
\* pending: its isOk and unwrap() are pending values.
C8_PendingAbsorbing ==
  \A j \in Ids :
    /\ chains[j].kind \in {"result", "promise"}
    /\ chains[j].kind = "result" => Settled(chains[j])
    /\ (chains[j].op \in Methods /\ PendingAbove(j))
         => /\ chains[j].kind = "promise"
            /\ isOk(chains[j]).kind = "promise"
            /\ unwrap(chains[j]).kind = "promise"

\* C8 witness: a step made the sequence pending, and the next step's callback
\* raised synchronously (or returned a plain value) on the resolved chain.
C8_Witness ==
  \E i \in Ids : \E j \in Ids :
    /\ HasParent(i) /\ ParentOf(i).kind = "result" /\ chains[i].kind = "promise"
    /\ chains[j].parent = i /\ chains[j].op \in Methods
    /\ chains[j].called /\ chains[j].out.kind \in {"throw", "value"}
    /\ Settled(chains[j]) /\ chains[j].kind = "promise"

\* The chains whose callback hands the user's function's outcome to update.
Folding == {"map", "catch", "ifFail", "safeExec"}
ImmediateInput(j) == IF HasParent(j) THEN ParentOf(j).kind = "result" ELSE TRUE

\* C9: folding on an immediate input.  A callback that returns r gives an
\* immediate success holding r; one that raises x an immediate failure holding
\* normalize(x); one that returns a pending value a pending chain that resolves
\* to success(resolved value) or failure(normalize(rejection reason)).
C9_Fold ==
  \A j \in Ids :
    (chains[j].op \in Folding /\ chains[j].called /\ ImmediateInput(j))
      => LET f == chains[j].out
         IN /\ f.kind = "value"
                 => (chains[j].kind = "result" /\ chains[j].res = ok(f.v))
            /\ f.kind = "throw"
                 => /\ chains[j].kind = "result"
                    /\ chains[j].res = Failure(normalizeError(f.x))
                    /\ f.x.kind \in {"Error", "string"}
                         => chains[j].res.error = Err(f.x.msg)
            /\ f.kind = "promise"
                 => /\ chains[j].kind = "promise"
                    /\ chains[j].wait \in {"cb", "none"}
                    /\ Settled(chains[j])
                         => chains[j].res = IF f.settle = "resolve" THEN ok(f.v)
                                            ELSE Failure(normalizeError(f.x))

\* C9 witness: map's transform returned a pending value that rejected with a
\* string, on an immediate success.
C9_Witness ==
  \E j \in Ids :
    /\ chains[j].op = "map" /\ chains[j].called /\ ParentOf(j).kind = "result"
    /\ chains[j].out.kind = "promise" /\ chains[j].out.x.kind = "string"
    /\ Failed(chains[j]) /\ chains[j].res.error.kind = "Error"

\* C10 (as claimed): safeValue(v) is an immediate success for every v, a v that
\* is a pending value included: isOk is the boolean true.
C10_AlwaysImmediate ==
  \A j \in Ids :
    chains[j].op = "safeValue"
      => /\ chains[j].kind = "result"
         /\ isOk(chains[j]) = Returns("true")

\* C10 (amended): safeValue(v) of a v that is not a pending value is an
\* immediate success, isOk true and unwrap() v; of a pending value v it is a
\* pending chain that resolves to what v resolves to, or fails with the
\* normalized reason v rejects with.
C10_SafeValue ==
  \A j \in Ids :
    chains[j].op = "safeValue"
      => LET v == chains[j].out
         IN IF v.kind = "value"
              THEN /\ chains[j].kind = "result"
                   /\ isOk(chains[j]) = Returns("true")
                   /\ unwrap(chains[j]) = Returns(v.v)
              ELSE /\ chains[j].kind = "promise"
                   /\ isOk(chains[j]).kind = "promise"
                   /\ unwrap(chains[j]).kind = "promise"
                   /\ Settled(chains[j])
                        => IF v.settle = "resolve"
                             THEN /\ isOk(chains[j]) = Resolving("true")
                                  /\ unwrap(chains[j]) = Resolving(v.v)
                             ELSE /\ isOk(chains[j]) = Resolving("false")
                                  /\ unwrap(chains[j]) = Rejecting(normalizeError(v.x))

\* C10 witness: safeValue of a pending value that has resolved.
C10_Witness ==
  \E j \in Ids :
    /\ chains[j].op = "safeValue" /\ chains[j].out.kind = "promise"
    /\ Succeeded(chains[j]) /\ unwrap(chains[j]) = Resolving(chains[j].out.v)

\* C11: safeExec of a thunk that raises e synchronously is an immediate
\* failure: isOk is the boolean false, and unwrap() raises the normalized e to
\* its caller (a string e as an Error whose message is that string).
C11_SafeExecThrow ==
  \A j \in Ids :
    (chains[j].op = "safeExec" /\ chains[j].out.kind = "throw")
      => LET e == chains[j].out.x
         IN /\ chains[j].kind = "result"
            /\ isOk(chains[j]) = Returns("false")
            /\ unwrap(chains[j]) = Throws(normalizeError(e))
            /\ e.kind = "string" => unwrap(chains[j]).x = Err(e.msg)
            /\ (Len(chains) = 1 /\ raised.op = "unwrap")
                 => raised.thrown = normalizeError(e)

\* C11 witness: the thunk raised a string and unwrap() raised the Error made of it.
C11_Witness ==
  /\ Len(chains) = 1
  /\ chains[1].op = "safeExec" /\ chains[1].out.kind = "throw"
  /\ chains[1].out.x.kind = "string"
  /\ raised = [op |-> "unwrap", thrown |-> Err(chains[1].out.x.msg)]

\* C12: safeExec(fn) has invoked fn when it returns, and raises nothing: a
\* returned value gives an immediate success holding it, a returned pending
\* value a pending chain, whose rejection shows only in isOk and unwrap().
C12_SafeExecEager ==
  /\ raised.op # "safeExec"
  /\ \A j \in Ids :
       chains[j].op = "safeExec"
         => LET fn == chains[j].out
            IN /\ chains[j].called /\ chains[j].calls = 1
               /\ chains[j].arg = ok(Undefined)
               /\ fn.kind = "value"
                    => /\ chains[j].kind = "result"
                       /\ unwrap(chains[j]) = Returns(fn.v)
               /\ fn.kind = "promise"
                    => /\ chains[j].kind = "promise"
                       /\ unwrap(chains[j]).kind = "promise"
                       /\ (Settled(chains[j]) /\ fn.settle = "reject")
                            => /\ isOk(chains[j]) = Resolving("false")
                               /\ unwrap(chains[j]) = Rejecting(normalizeError(fn.x))

\* C12 witness: fn returned a pending value that rejected; the chain was
\* returned, and the rejection is in the pending value unwrap() returns.
C12_Witness ==
  /\ Len(chains) >= 1
  /\ chains[1].op = "safeExec" /\ chains[1].called
  /\ chains[1].out.kind = "promise" /\ chains[1].out.settle = "reject"
  /\ Failed(chains[1]) /\ raised = NoRaise
  /\ unwrap(chains[1]).settle = "reject"

\* The chains whose result is the fold of what their function did.
FoldsOutcome(j) == chains[j].op \in Folding \cup {"safeValue"} /\ chains[j].called

\* C13: isOk of an immediate chain is a boolean, true exactly when unwrap()
\* returns; isOk of a pending chain is a pending boolean that never rejects
\* and resolves to true exactly when unwrap()'s pending value resolves; it
\* resolves to false when the pending value the chain was made of rejected.
C13_IsOk ==
  \A j \in Ids :
    LET b == isOk(chains[j])
        got == unwrap(chains[j])
    IN /\ chains[j].kind = "result"
            => /\ b \in {Returns("true"), Returns("false")}
               /\ b = Returns("true") <=> got.kind = "value"
       /\ chains[j].kind = "promise"
            => /\ b.kind = "promise" /\ b.settle # "reject"
               /\ Settled(chains[j])
                    => /\ b \in {Resolving("true"), Resolving("false")}
                       /\ b = Resolving("true") <=> got.settle = "resolve"
               /\ (FoldsOutcome(j) /\ Settled(chains[j])
                     /\ chains[j].out.kind = "promise" /\ chains[j].out.settle = "reject")
                    => b = Resolving("false")

\* C13 witness: a chain made of a pending value that rejected; its isOk has
\* resolved to false.
C13_Witness ==
  \E j \in Ids :
    /\ chains[j].op = "safeValue"
    /\ chains[j].out.kind = "promise" /\ chains[j].out.settle = "reject"
    /\ Settled(chains[j]) /\ isOk(chains[j]) = Resolving("false")

\* C14: unwrap() of an immediate chain returns the value its function returned
\* or raises the normalized form of what it raised, to the caller; unwrap() of
\* a pending chain never raises: it returns a pending value, which settles
\* when the chain does, resolving to the value or rejecting with the
\* normalized error.
C14_Unwrap ==
  /\ raised.op = "unwrap"
       => \E i \in Tip : /\ chains[i].kind = "result" /\ ~chains[i].res.isOk
                         /\ raised.thrown = chains[i].res.error
                         /\ raised.thrown.kind = "Error"
  /\ \A j \in Ids :
       LET got == unwrap(chains[j])
           f == chains[j].out
       IN /\ chains[j].kind = "result" => got.kind \in {"value", "throw"}
          /\ chains[j].kind = "promise"
               => /\ got.kind = "promise"
                  /\ got.settle = "none" <=> ~Settled(chains[j])
          /\ (FoldsOutcome(j) /\ chains[j].kind = "result")
               => got = IF f.kind = "value" THEN Returns(f.v)
                        ELSE Throws(normalizeError(f.x))
          /\ (FoldsOutcome(j) /\ chains[j].kind = "promise" /\ Settled(chains[j]))
               => got = IF f.settle = "resolve" \/ f.kind = "value" THEN Resolving(f.v)
                        ELSE Rejecting(normalizeError(f.x))

\* C14 witness: a transform on a pending chain raised a string; unwrap()'s
\* pending value rejected with the Error made of it.
C14_Witness ==
  \E j \in Ids :
    /\ chains[j].op = "map" /\ chains[j].called /\ chains[j].kind = "promise"
    /\ chains[j].out.kind = "throw" /\ chains[j].out.x.kind = "string"
    /\ unwrap(chains[j]) = Rejecting(Err(chains[j].out.x.msg))

\* C14 witness: unwrap() of an immediate failure raised its error to the caller.
C14_WitnessRaised ==
  /\ raised.op = "unwrap"
  /\ \E i \in Tip : chains[i].op = "catch" /\ chains[i].out.kind = "throw"

\* C15: on a success, an effect/ifOk function that raises x makes the chain a
\* failure with normalize(x), immediate on an immediate chain; one whose
\* pending value rejects with x makes it a pending chain that fails with
\* normalize(x); the same function given to watch leaves the success as it was.
C15_EffectFailure ==
  \A j \in Ids :
    LET f == chains[j].out
    IN /\ (chains[j].op \in {"effect", "ifOk"} /\ chains[j].called)
            => /\ f.kind = "throw"
                    => /\ chains[j].kind = ParentOf(j).kind
                       /\ Settled(chains[j])
                       /\ chains[j].res = Failure(normalizeError(f.x))
               /\ (f.kind = "promise" /\ f.settle = "reject")
                    => /\ chains[j].kind = "promise"
                       /\ Settled(chains[j])
                            => chains[j].res = Failure(normalizeError(f.x))
       /\ (chains[j].op = "watch" /\ Ran(chains[j]) /\ ParentOf(j).res.isOk)
            => /\ chains[j].kind = ParentOf(j).kind
               /\ Succeeded(chains[j])
               /\ chains[j].res = ParentOf(j).res

\* C15 witness: effectFn's pending value rejected on an immediate success and
\* the pending chain failed with it.
C15_Witness ==
  \E j \in Ids :
    /\ chains[j].op = "effect" /\ chains[j].called
    /\ ParentOf(j).kind = "result"
    /\ chains[j].out.kind = "promise" /\ chains[j].out.settle = "reject"
    /\ Failed(chains[j]) /\ chains[j].res.error = normalizeError(chains[j].out.x)

\* C15 witness: ifOk's function raised on an immediate success, and a watch
\* consumer's pending value rejected on one.
C15_WitnessSync ==
  \E i \in Ids : \E j \in Ids :
    /\ chains[i].op = "watch" /\ chains[i].kind = "result" /\ Succeeded(chains[i])
    /\ chains[i].out.kind = "promise" /\ chains[i].out.settle = "reject"
    /\ chains[j].op = "ifOk" /\ chains[j].parent = i /\ chains[j].out.kind = "throw"
    /\ chains[j].kind = "result" /\ Failed(chains[j])

\* C16: on a failure, a catch/ifFail handler that raises x, or whose pending
\* value rejects with x, makes the chain a failure with normalize(x) in place
\* of the original error; the chain's result is that of the one invocation.
C16_RecoveryFailure ==
  \A j \in Ids :
    (chains[j].op \in {"catch", "ifFail"} /\ chains[j].called)
      => LET h == chains[j].out
         IN /\ ~ParentOf(j).res.isOk
            /\ chains[j].calls = 1
            /\ h.kind = "throw"
                 => /\ chains[j].kind = ParentOf(j).kind
                    /\ Settled(chains[j])
                    /\ chains[j].res = Failure(normalizeError(h.x))
                    /\ chains[j].res.error # ParentOf(j).res.error
            /\ (h.kind = "promise" /\ h.settle = "reject")
                 => /\ chains[j].kind = "promise"
                    /\ Settled(chains[j])
                         => /\ chains[j].res = Failure(normalizeError(h.x))
                            /\ chains[j].res.error # ParentOf(j).res.error

\* C16 witness: catch's handler raised on an immediate failure, and ifFail's
\* handler, run on the new failure, returned a pending value that rejected.
C16_Witness ==
  \E i \in Ids : \E j \in Ids :
    /\ chains[i].op = "catch" /\ chains[i].called /\ chains[i].out.kind = "throw"
    /\ chains[i].kind = "result" /\ Failed(chains[i])
    /\ chains[j].op = "ifFail" /\ chains[j].parent = i /\ chains[j].called
    /\ chains[j].arg = chains[i].res
    /\ chains[j].out.kind = "promise" /\ chains[j].out.settle = "reject"
    /\ Failed(chains[j]) /\ chains[j].res.error = normalizeError(chains[j].out.x)

\* The failure Result safeResult.fail(given) returned.
MadeFailure == made # NotMade /\ ~made.isOk
\* The values JSON.stringify turns into a text.
Serializable(x) == x.kind \in {"null", "boolean", "number", "array", "object"}
\* The values JSON.stringify throws on.
Unserializable(x) == x.kind \in {"circular", "toJSON"}

\* C17: fail(x) is a failure with no value whose error is x itself when x is an
\* Error, an Error with message x when x is a string, and an Error whose
\* message is the JSON text of x when x is another serializable value.
C17_Normalize ==
  MadeFailure
    => /\ made.value = Undefined
       /\ given.kind = "Error" => made.error = given
       /\ given.kind = "string"
            => (made.error.kind = "Error" /\ made.error.msg = given.msg)
       /\ Serializable(given)
            => (made.error.kind = "Error" /\ made.error.msg = JSONtext(given))
       /\ given = Null => made.error.msg = "null"
       /\ given = Bool(FALSE) => made.error.msg = "false"
       /\ given = Arr(<<Num(1), Null>>) => made.error.msg = "[1,null]"
       /\ given = Obj("ERR123") => made.error.msg = "{\"code\":\"ERR123\"}"

\* C17 witness: fail of an array, and its serialization as the message.
C17_Witness ==
  /\ MadeFailure
  /\ given = Arr(<<Num(1), Null>>)
  /\ made = [isOk |-> FALSE, error |-> Err("[1,null]"), value |-> Undefined]

\* C17 witness: fail of a string.
C17_WitnessString ==
  /\ MadeFailure
  /\ given = Str("boom") /\ made.error = Err("boom")

\* C18 (as claimed): when serializing x fails, the error stored in the failure
\* Result fail(x) returns is x itself.  (fail returns for every x: FailResult
\* has no other outcome.)
C18_RawFallback ==
  (MadeFailure /\ Unserializable(given)) => made.error = given

\* C19: a watch step invokes its consumer once, on a success and on a failure
\* alike, with a snapshot equal to the result of the chain it was called on;
\* on a pending chain the consumer is invoked when that chain's result has
\* resolved, and not before.
C19_WatchSnapshot ==
  \A j \in Ids :
    chains[j].op = "watch"
      => /\ chains[j].called <=> Ran(chains[j])
         /\ ~Settled(ParentOf(j)) => (~chains[j].called /\ chains[j].calls = 0)
         /\ chains[j].called
              => /\ chains[j].calls = 1
                 /\ Settled(ParentOf(j))
                 /\ chains[j].arg = ParentOf(j).res
                 /\ chains[j].arg.isOk
                      => chains[j].arg = ok(ParentOf(j).res.value)
                 /\ ~chains[j].arg.isOk
                      => chains[j].arg = Failure(ParentOf(j).res.error)

\* C19 witness: a consumer invoked with the failure snapshot once the pending
\* chain had resolved.
C19_Witness ==
  \E j \in Ids :
    /\ chains[j].op = "watch" /\ chains[j].called /\ chains[j].calls = 1
    /\ ParentOf(j).kind = "promise" /\ ParentOf(j).called
    /\ ~chains[j].arg.isOk
    /\ chains[j].arg.error = normalizeError(ParentOf(j).out.x)

\* C19 witness: a consumer invoked with the success snapshot of an immediate chain.
C19_WitnessOk ==
  \E i \in Ids :
    /\ chains[i].op = "watch" /\ chains[i].called /\ chains[i].kind = "result"
    /\ chains[i].arg = ok(ParentOf(i).res.value)

\* C19 witness: a watch step on a pending chain whose consumer still waits.
C19_WitnessWaiting ==
  \E j \in Ids :
    chains[j].op = "watch" /\ ~chains[j].called /\ ~Settled(ParentOf(j))

\* C20: watch keeps the timing of the chain it is called on and waits for
\* nothing the consumer returned: on an immediate chain it gives an immediate
\* chain, whose unwrap() returns or raises at once; on a pending chain the
\* result has resolved as soon as the consumer was invoked.
C20_WatchNoWait ==
  \A j \in Ids :
    chains[j].op = "watch"
      => /\ chains[j].kind = ParentOf(j).kind
         /\ chains[j].wait # "cb" /\ chains[j].aw = NoOutcome
         /\ chains[j].kind = "result"
              => unwrap(chains[j]).kind \in {"value", "throw"}
         /\ (chains[j].kind = "promise" /\ chains[j].called)
              => unwrap(chains[j]).settle # "none"

\* C20 witness: the consumer returned a pending value on an immediate success
\* and unwrap() of the watch chain returns the value.
C20_Witness ==
  \E j \in Ids :
    /\ chains[j].op = "watch" /\ chains[j].kind = "result"
    /\ chains[j].out.kind = "promise"
    /\ unwrap(chains[j]) = Returns(ParentOf(j).res.value)

\* C20 witness: the same on a pending chain, resolved with the consumer invoked.
C20_WitnessPending ==
  \E j \in Ids :
    /\ chains[j].op = "watch" /\ chains[j].kind = "promise"
    /\ chains[j].out.kind = "promise" /\ chains[j].out.settle = "resolve"
    /\ unwrap(chains[j]) = Resolving(ParentOf(j).res.value)

C21_WitnessValue ==
  \E j \in Ids :
    /\ chains[j].op = "flatMap" /\ chains[j].called
    /\ chains[j].out.kind = "safe" /\ ~chains[j].out.async
    /\ chains[j].kind = "result" /\ chains[j].res = ok(chains[j].out.v)

\* C22: the value of a resolved success is never itself a pending value; a
\* chain made of a promise that was resolved with further promises resolves
\* to the innermost value or fails with the innermost rejection reason, and
\* the next transform receives that innermost value.
C22_Flattening ==
  \A j \in Ids :
    /\ (Settled(chains[j]) /\ chains[j].res.isOk) => chains[j].res.value # PromiseValue
    /\ (chains[j].called /\ chains[j].out.kind = "promise")
         => LET p == Innermost(chains[j].out)
            IN /\ chains[j].kind = "promise"
               /\ Settled(chains[j])
                    => unwrap(chains[j]) = IF p.settle = "resolve" THEN Resolving(p.v)
                                           ELSE Rejecting(normalizeError(p.x))
    /\ (chains[j].op = "map" /\ chains[j].called)
         => /\ chains[j].arg.value # PromiseValue
            /\ ParentOf(j).out.kind = "promise"
                 => chains[j].arg = ok(Innermost(ParentOf(j).out).v)

\* C22 witness: safeValue of a promise resolved with a promise resolved with
\* a promise; the chain resolved to the innermost value and map's transform
\* received it.
C22_Witness ==
  /\ Len(chains) = 2
  /\ chains[1].op = "safeValue" /\ chains[1].out.settle = "adopt"
  /\ chains[1].out.inner.settle = "adopt"
  /\ unwrap(chains[1]) = Resolving(ValueOf(1))
  /\ chains[2].called /\ chains[2].arg = ok(ValueOf(1))

\* C22 witness: a transform returned a promise resolved with a promise that
\* rejected; the chain failed with the innermost reason.
C22_WitnessReject ==
  \E j \in Ids :
    /\ chains[j].op = "map" /\ chains[j].called
    /\ chains[j].out.settle = "adopt" /\ Innermost(chains[j].out).settle = "reject"
    /\ Failed(chains[j])
    /\ unwrap(chains[j]) = Rejecting(normalizeError(Innermost(chains[j].out).x))

\* C23 (as claimed): a Result that ok or fail returned has one side: with isOk
\* true the error is absent, with isOk false the value is absent and an error
\* is present.
C23_OneSide ==
  made # NotMade
    => /\ made.isOk => made.error = NoError
       /\ ~made.isOk => (made.value = Undefined /\ made.error # NoError)

\* What the callback of chain j was given, when it ran, if it saw the result
\* of the chain it was called on.
SeesParent(j) ==
  LET prev == ParentOf(j).res
  IN /\ chains[j].called
          => chains[j].arg = IF chains[j].op \in {"watch", "catch", "ifFail"} THEN prev
                             ELSE ok(prev.value)
     /\ chains[j].called
          <=> CASE chains[j].op \in ShortCircuiting -> prev.isOk
                [] chains[j].op \in {"catch", "ifFail"} -> ~prev.isOk
                [] chains[j].op = "watch" -> TRUE
                [] OTHER -> FALSE

\* A step of the program leaves chain j as it was.
Untouched(j) ==
  /\ chains'[j] = chains[j]
  /\ isOk(chains'[j]) = isOk(chains[j])
  /\ unwrap(chains'[j]) = unwrap(chains[j])

\* C24: chains are immutable.  No step changes a chain whose result has
\* resolved; a call of map, flatMap, effect, ifOk, watch, catch, ifFail, orElse
\* or unwrap changes no existing chain, the one it is called on included; the
\* step in which one chain's callback runs or settles changes no other chain;
\* and every chain derived from a chain c ran its callback on c's result.
C24_Immutable ==
  /\ [](\A j \in Ids : (HasParent(j) /\ Ran(chains[j])) => SeesParent(j))
  /\ [][/\ Len(chains') >= Len(chains)
        /\ \A j \in Ids : Settled(chains[j]) => Untouched(j)
        /\ (Len(chains') > Len(chains) \/ raised' # raised)
             => \A j \in Ids : Untouched(j)
        /\ \A j \in Ids : \A k \in Ids :
             (j # k /\ chains'[k] # chains[k]) => Untouched(j)]_vars

\* C24 witness: two chains derived from one success: one failed, the other
\* succeeded on the value of the chain they come from, which still holds it.
C24_Witness ==
  \E c \in Ids : \E j \in Ids : \E k \in Ids :
    /\ j < k /\ chains[j].parent = c /\ chains[k].parent = c
    /\ Succeeded(chains[c])
    /\ chains[j].op = "map" /\ Failed(chains[j])
    /\ chains[k].op = "map" /\ Succeeded(chains[k])
    /\ chains[k].arg = chains[c].res
    /\ unwrap(chains[c]).kind \in {"value", "promise"}
    /\ chains[c].res.value = ValueOf(c)

\* C25: in a chain sequence the callback of a step has not run before the
\* callback of the step before it has returned, and not before the pending
\* value of that step has settled: while a step is pending, the next step's
\* function has not been invoked.
C25_Order ==
  \A j \in Ids :
    HasParent(j)
      => /\ Ran(chains[j]) => (Ran(ParentOf(j)) /\ Settled(ParentOf(j)))
         /\ ~Settled(ParentOf(j))
              => (chains[j].wait = "prev" /\ ~chains[j].called /\ chains[j].calls = 0)
         /\ (chains[j].called /\ chains[j].op \in ShortCircuiting /\ ParentOf(j).called
               /\ ParentOf(j).op \in Folding)
              => chains[j].arg = ok(Innermost(ParentOf(j).out).v)

\* C25 witness: a step waits for the pending value of the step before it.
C25_Witness ==
  \E j \in Ids :
    /\ HasParent(j) /\ ParentOf(j).called /\ ParentOf(j).wait = "cb"
    /\ chains[j].wait = "prev" /\ chains[j].calls = 0

\* C25 witness: the pending value settled and the next step's function ran on it.
C25_WitnessRan ==
  \E j \in Ids :
    /\ HasParent(j) /\ ParentOf(j).called /\ ParentOf(j).out.kind = "promise"
    /\ chains[j].op = "map" /\ chains[j].called
    /\ chains[j].arg = ok(ParentOf(j).out.v)

\* What update makes of a function that did f, once everything has settled.
FoldOf(f) ==
  LET p == Innermost(f)
  IN IF f.kind = "throw" \/ p.settle = "reject" THEN Failure(normalizeError(p.x))
     ELSE ok(p.v)

\* C26: safePipe(f1, ..., fn)(x) is safeValue(x).map(f1)...map(fn).  Step 1 is
\* safeValue(x) and step k + 1 a map on step k; a transformer is invoked at
\* most once, only when every transformer before it was invoked and
\* succeeded, and with what the one before it returned (resolved, when it was
\* pending); after the first one that raises none is invoked and the failure
\* is carried to the end; a step is pending exactly when the step before it is
\* or its transformer returned a pending value, and its outcome is the fold of
\* what its transformer did.
C26_Pipe ==
  \A j \in Ids :
    IF j = 1
      THEN /\ chains[j].op = "safeValue" /\ chains[j].parent = 0
           /\ Settled(chains[j]) => chains[j].res = FoldOf(chains[j].out)
      ELSE /\ chains[j].op = "map" /\ chains[j].parent = j - 1
           /\ chains[j].calls <= 1
           /\ chains[j].called
                => /\ \A i \in 1..(j - 1) : chains[i].called /\ Succeeded(chains[i])
                   /\ chains[j].arg = ok(Innermost(chains[j - 1].out).v)
           /\ (Failed(chains[j - 1]) /\ Ran(chains[j]))
                => (~chains[j].called /\ Settled(chains[j])
                      /\ chains[j].res = chains[j - 1].res)
           /\ (Succeeded(chains[j - 1]) /\ Ran(chains[j])) => chains[j].called
           /\ Ran(chains[j])
                => (chains[j].kind = "promise"
                      <=> (chains[j - 1].kind = "promise"
                             \/ (chains[j].called /\ chains[j].out.kind = "promise")))
           /\ (chains[j].called /\ Settled(chains[j]))
                => chains[j].res = FoldOf(chains[j].out)

\* C26 witness: the first transformer returned a pending value, the second one
\* was invoked with what it resolved to and the pipe succeeded.
C26_Witness ==
  /\ Len(chains) = 3
  /\ chains[1].kind = "result"
  /\ chains[2].called /\ chains[2].out.kind = "promise"
  /\ chains[3].called /\ chains[3].arg = ok(chains[2].out.v)
  /\ chains[3].kind = "promise" /\ Succeeded(chains[3])

\* C26 witness: the first transformer raised and the second was not invoked.
C26_WitnessRaise ==
  /\ Len(chains) = 3
  /\ chains[2].called /\ chains[2].out.kind = "throw"
  /\ ~chains[3].called /\ chains[3].kind = "result"
  /\ chains[3].res = Failure(normalizeError(chains[2].out.x))

----------------------------------------------------------------------------
(* retry(fn, options) (util/retry.ts), and a chain that runs the function   *)
(* it returns through map.                                                   *)

\* Largest maxTries an option object carries.
MaxTries == 3
\* options?.maxTries ?? 3
DefaultMaxTries == 3

\* The options argument: maxTries given as a number, or left out.
MaxTriesOptions ==
  {[given |-> FALSE, n |-> 0]} \cup {[given |-> TRUE, n |-> n] : n \in 0..MaxTries}

maxTriesOf(options) == IF options.given THEN options.n ELSE DefaultMaxTries

\* options?.delay ?? 1000
DefaultDelay == 1000

\* The delay option: left out, or a number of milliseconds.
DelayOptions == {[given |-> FALSE, ms |-> 0], [given |-> TRUE, ms |-> 10]}

delayOf(options) == IF options.given THEN options.ms ELSE DefaultDelay

\* The backoff option: left out, or a boolean.  options?.backoff ?? false
BackoffOptions ==
  {[given |-> FALSE, on |-> FALSE], [given |-> TRUE, on |-> TRUE], [given |-> TRUE, on |-> FALSE]}

useBackoffOf(options) == IF options.given THEN options.on ELSE FALSE

\* Mutant of waitTime: the exponent is the number of the attempt, from 1.
waitTimeFromOne(useBackoff, delay, i) == IF useBackoff THEN delay * 2^(i + 1) ELSE delay

\* useBackoff ? delay * Math.pow(2, i) : delay
waitTime(useBackoff, delay, i) == IF useBackoff THEN delay * 2^i ELSE delay

\* What invocation k of fn may do: return or resolve with a value of its own,
\* raise or reject with an error of its own.
AttemptOutcomes(k) ==
  {Returns(ValueOf(k)), Resolving(ValueOf(k))}
    \cup {Throws(Err("Fail " \o ToString(k)))}
    \cup {Rejecting(Err("Fail " \o ToString(k))), Rejecting(Str("Fail " \o ToString(k)))}

\* Mutant of loopCondition: one more turn of the loop.
loopConditionInclusive(i, maxTries) == i <= maxTries

\* for (let i = 0; i < maxTries; i++)
loopCondition(i, maxTries) == i < maxTries

\* Mutant of lastErrorOf: the first error is kept.
lastErrorFirst(previous, error) == IF previous = NoError THEN error ELSE previous

\* lastError = error
lastErrorOf(previous, error) == error

\* The catch block: the error is recorded; before the last turn the function
\* waits for the delay (waits records each wait's time), after it the loop goes
\* on to its test.
caught(r, error) ==
  LET r1 == [r EXCEPT !.lastError = lastErrorOf(r.lastError, error)]
  IN IF r.i < r.maxTries - 1
       THEN [r1 EXCEPT !.pc = "delay",
                       !.waits = Append(r.waits, waitTime(r.useBackoff, r.delay, r.i))]
     ELSE [r1 EXCEPT !.pc = "loop", !.i = r.i + 1]

\* The promise the wrapped function returned: pending until it returns or throws.
RetryPromise ==
  IF run.pc = "resolved" THEN Resolving(run.result)
  ELSE IF run.pc = "rejected" THEN Rejecting(run.lastError)
  ELSE [kind |-> "promise", settle |-> "none", v |-> Undefined, x |-> NoError, async |-> TRUE]

\* safe(value).map(retry(fn, options)): map calls the wrapped function with the
\* chain's value; the function is async, so the new chain waits for its promise.
RetryMap ==
  /\ chains = <<>>
  /\ run.pc = "idle"
  /\ \E options \in MaxTriesOptions : \E d \in DelayOptions : \E b \in BackoffOptions :
       LET first == createChain("safeValue", 0, NoOutcome, safeValue(Returns(ValueOf(0))))
           r == next(first, "map", RetryPromise)
       IN /\ chains' = <<first, createChain("map", 1, NoOutcome, r)>>
          /\ run' = [run EXCEPT !.pc = "loop", !.i = 0, !.maxTries = maxTriesOf(options),
                                !.arg = r.arg.value, !.delay = delayOf(d),
                                !.useBackoff = useBackoffOf(b)]
  /\ raised' = NoRaise
  /\ UNCHANGED <<resultVars, tries, checked, settled, reads>>

\* One turn of the loop: fn(arg) is invoked; what it raises is caught, what it
\* returns is awaited.
Invoke ==
  /\ run.pc = "loop"
  /\ loopCondition(run.i, run.maxTries)
  /\ \E u \in AttemptOutcomes(Len(tries) + 1) :
       /\ tries' = Append(tries, [arg |-> run.arg, out |-> u])
       /\ run' = IF u.kind = "throw" THEN caught(run, u.x) ELSE [run EXCEPT !.pc = "await"]
  /\ UNCHANGED <<chains, raised, resultVars, checked, settled, reads>>

\* await fn(arg) completes: the function returns the value, or the rejection
\* is caught.
Resume ==
  /\ run.pc = "await"
  /\ LET u == tries[Len(tries)].out
     IN run' = IF u.settle = "reject" THEN caught(run, u.x)
               ELSE [run EXCEPT !.pc = "resolved", !.result = u.v]
  /\ UNCHANGED <<chains, raised, resultVars, tries, checked, settled, reads>>

\* The delay's timer fires: i++ and the loop's test.
Timer ==
  /\ run.pc = "delay"
  /\ run' = [run EXCEPT !.pc = "loop", !.i = run.i + 1]
  /\ UNCHANGED <<chains, raised, resultVars, tries, checked, settled, reads>>

\* The loop is over: throw lastError.
ThrowLast ==
  /\ run.pc = "loop"
  /\ ~loopCondition(run.i, run.maxTries)
  /\ run' = [run EXCEPT !.pc = "rejected"]
  /\ UNCHANGED <<chains, raised, resultVars, tries, checked, settled, reads>>

\* The wrapped function's promise has settled: the map chain's result follows.
SettleRetry ==
  /\ Len(chains) = 2
  /\ chains[2].wait = "cb"
  /\ run.pc \in {"resolved", "rejected"}
  /\ chains' = [chains EXCEPT ![2].wait = "none", ![2].res = settle(RetryPromise),
                              ![2].aw = NoOutcome]
  /\ UNCHANGED <<raised, resultVars, retryVars, checked, settled, reads>>

RetryNext ==
  \/ RetryMap
  \/ Invoke
  \/ Resume
  \/ Timer
  \/ ThrowLast
  \/ SettleRetry
  \/ \E i \in Tip : Unwrap(i)

RetrySpec == Init /\ [][RetryNext]_vars

\* The invocations of fn that failed / the one that succeeded.
AttemptFailed(t) == t.out.kind = "throw" \/ t.out.settle = "reject"
AttemptSucceeded(t) == ~AttemptFailed(t)
RetryDone == run.pc \in {"resolved", "rejected"}

\* C27: the wrapped function invokes fn one call after the other with the
\* argument it was given, never more than maxTries times (3 when the option is
\* left out); every invocation before the last one made has failed; it resolves
\* exactly when an invocation succeeded, with that invocation's value, and it
\* rejects only after maxTries failed invocations.
C27_RetryCount ==
  /\ Len(tries) <= run.maxTries
  /\ \A k \in 1..Len(tries) :
       /\ tries[k].arg = run.arg
       /\ k < Len(tries) => AttemptFailed(tries[k])
  /\ run.pc = "resolved" =>
       /\ Len(tries) >= 1
       /\ AttemptSucceeded(tries[Len(tries)])
       /\ run.result = tries[Len(tries)].out.v
  /\ run.pc = "rejected" =>
       /\ Len(tries) = run.maxTries
       /\ \A k \in 1..Len(tries) : AttemptFailed(tries[k])

\* The default: three failed invocations, then the rejection.
C27_Witness ==
  /\ run.pc = "rejected"
  /\ run.maxTries = DefaultMaxTries
  /\ Len(tries) = 3

\* The second invocation succeeds although three were allowed: there is no third.
C27_WitnessStop ==
  /\ run.pc = "resolved"
  /\ run.maxTries = 3
  /\ Len(tries) = 2
  /\ AttemptFailed(tries[1])
  /\ run.result = ValueOf(2)

\* The error invocation k of fn raised or rejected with.
AttemptError(t) == t.out.x

\* C28: when every one of the maxTries (at least one) invocations has failed,
\* the wrapped function rejects with the error of the last invocation, and
\* the chain that ran it through map settles as a failure holding that error
\* (an Error as it is, a string as the Error made from it): its isOk resolves
\* to false and its unwrap() rejects with it.
C28_LastError ==
  (run.pc = "rejected" /\ Len(tries) >= 1) =>
     LET last == AttemptError(tries[Len(tries)])
     IN /\ RetryPromise = Rejecting(last)
        /\ Settled(chains[2]) =>
             /\ chains[2].res = Failure(normalizeError(last))
             /\ last.kind = "Error" => chains[2].res.error = last
             /\ isOk(chains[2]) = Resolving("false")
             /\ unwrap(chains[2]) = Rejecting(chains[2].res.error)

\* Three invocations fail with three errors: the chain fails with the third.
C28_Witness ==
  /\ run.pc = "rejected"
  /\ Len(tries) = 3
  /\ AttemptError(tries[1]) = Err("Fail 1")
  /\ AttemptError(tries[3]) = Err("Fail 3")
  /\ Settled(chains[2])
  /\ unwrap(chains[2]) = Rejecting(Err("Fail 3"))

\* The last invocation rejects with a string.
C28_WitnessString ==
  /\ run.pc = "rejected"
  /\ Len(tries) = 2
  /\ AttemptError(tries[2]) = Str("Fail 2")
  /\ Settled(chains[2])
  /\ unwrap(chains[2]) = Rejecting(Err("Fail 2"))

----------------------------------------------------------------------------
(* The validators errorIfNull, errorIfFalsy, errorIfEmpty and errorIf, each *)
(* called on its own and as the transform of map.                           *)

\* The number NaN.
NaN == [kind |-> "NaN"]

\* The values a validator is applied to.
ValidatorInputs ==
  {Null, NoError, Bool(FALSE), Bool(TRUE), Num(0), Num(1), NaN, Str(""), Str("a"),
   Arr(<<>>), Arr(<<Num(1)>>), Obj("m")}

\* The message argument: left out, or a string.
MessageOptions ==
  {[given |-> FALSE, text |-> ""], [given |-> TRUE, text |-> "custom"],
   [given |-> TRUE, text |-> ""]}

\* message = '...': a parameter with a default.
messageOf(option, default) == IF option.given THEN option.text ELSE default

\* !value is false: the value is truthy.
ToBoolean(value) ==
  IF value.kind \in {"null", "undefined", "NaN"} THEN FALSE
  ELSE IF value.kind = "boolean" THEN value.b
  ELSE IF value.kind = "number" THEN value.n # 0
  ELSE IF value.kind = "string" THEN value.msg # ""
  ELSE TRUE

\* errorIfNull(message)(value)
errorIfNull(message, value) ==
  IF value.kind = "null" \/ value.kind = "undefined" THEN Throws(NewError(message))
  ELSE Returns(value)

\* Mutant of errorIfFalsy: only null and undefined are refused.
errorIfFalsyNullOnly(message, value) ==
  IF value.kind = "null" \/ value.kind = "undefined" THEN Throws(NewError(message))
  ELSE Returns(value)

\* errorIfFalsy(message)(value)
errorIfFalsy(message, value) ==
  IF ~ToBoolean(value) THEN Throws(NewError(message)) ELSE Returns(value)

\* errorIfEmpty(message)(value): value.length of null or undefined raises a
\* TypeError; a value with no length property has length undefined.
errorIfEmpty(message, value) ==
  IF value.kind \in {"null", "undefined"}
    THEN Throws(Err("TypeError: Cannot read properties of " \o value.kind))
  ELSE IF value.kind = "string" /\ value.msg = "" THEN Throws(NewError(message))
  ELSE IF value.kind = "array" /\ Len(value.items) = 0 THEN Throws(NewError(message))
  ELSE Returns(value)

\* What check(value) returns: a string, false or undefined.
CheckResults == {Str("Value required"), Str(""), Bool(FALSE), NoError}

\* errorIf(check)(value), result being what check(value) returned.
errorIf(result, value) ==
  IF ToBoolean(result) THEN Throws(NewError(result.msg)) ELSE Returns(value)

Validators == {"errorIfNull", "errorIfFalsy", "errorIfEmpty", "errorIf"}

DefaultMessage(validator) ==
  IF validator = "errorIfNull" THEN "Value is null or undefined"
  ELSE IF validator = "errorIfFalsy" THEN "Value is falsy"
  ELSE "Value is empty"

\* The validator v, built with this message or check, applied to value.
validate(v, value) ==
  LET message == messageOf(v.configured, DefaultMessage(v.validator))
  IN IF v.validator = "errorIfNull" THEN errorIfNull(message, value)
     ELSE IF v.validator = "errorIfFalsy" THEN errorIfFalsy(message, value)
     ELSE IF v.validator = "errorIfEmpty" THEN errorIfEmpty(message, value)
     ELSE errorIf(v.check, value)

\* The validators the program may build.
Built ==
  {[validator |-> n, configured |-> o, check |-> NoError,
    value |-> NoError, out |-> NoOutcome] :
     n \in Validators \ {"errorIf"}, o \in MessageOptions}
  \cup
  {[validator |-> "errorIf", configured |-> [given |-> FALSE, text |-> ""], check |-> c,
    value |-> NoError, out |-> NoOutcome] : c \in CheckResults}

\* validator(value), called on its own.
CallValidator ==
  /\ chains = <<>>
  /\ checked = NotChecked
  /\ \E v \in Built : \E value \in ValidatorInputs :
       checked' = [v EXCEPT !.value = value, !.out = validate(v, value)]
  /\ UNCHANGED <<chains, raised, resultVars, retryVars, settled, reads>>

\* The transform of a map whose previous result is prev: the validator applied
\* to the value, when map invokes it.
ValidatorOn(v, prev) == IF prev.isOk THEN validate(v, prev.value) ELSE NoOutcome

\* safe(value).map(validator) and safe(promise).map(validator)
MapValidator ==
  /\ chains = <<>>
  /\ checked = NotChecked
  /\ \E v \in Built : \E value \in ValidatorInputs :
       \E input \in {Returns(value), Resolving(value)} :
         LET first == createChain("safeValue", 0, NoOutcome, safeValue(input))
             u == IF Settled(first) THEN ValidatorOn(v, first.res) ELSE NoOutcome
         IN /\ chains' = <<first, createChain("map", 1, NoOutcome, next(first, "map", u))>>
            /\ checked' = [v EXCEPT !.value = value]
  /\ raised' = NoRaise
  /\ UNCHANGED <<resultVars, retryVars, settled, reads>>

\* The previous chain's promise has resolved: map's callback runs the validator.
ContinueValidator ==
  /\ Len(chains) = 2
  /\ chains[2].wait = "prev"
  /\ chains[1].wait = "none"
  /\ LET r == thenUpdate(chains[1].res, "map", ValidatorOn(checked, chains[1].res))
     IN chains' = [chains EXCEPT ![2] = createChain("map", 1, NoOutcome, r)]
  /\ UNCHANGED <<raised, resultVars, retryVars, checked, settled, reads>>

ValidatorNext ==
  \/ CallValidator
  \/ MapValidator
  \/ ContinueValidator
  \/ \E j \in 1..Len(chains) : SettleCallback(j)
  \/ \E i \in Tip : Unwrap(i)

ValidatorSpec == Init /\ [][ValidatorNext]_vars

\* null and undefined; the falsy values; the values that have a length, and
\* those of length 0.
NullOrUndefined == {Null, NoError}
Falsy == {Null, NoError, Bool(FALSE), Num(0), NaN, Str("")}
HasLength(value) == value.kind \in {"string", "array"}
LengthZero == {Str(""), Arr(<<>>)}

\* The values the validator is to refuse.
Refused(validator, value) ==
  IF validator = "errorIfNull" THEN value \in NullOrUndefined
  ELSE IF validator = "errorIfFalsy" THEN value \in Falsy
  ELSE value \in LengthZero

\* The validator was called on its own / ran as the transform of a map whose
\* chain has settled.
CalledAlone == checked.out.kind # "none"
RanInMap == Len(chains) = 2 /\ Settled(chains[1]) /\ Settled(chains[2])

\* C29: errorIfNull, errorIfFalsy and errorIfEmpty (the last on a value that
\* has a length) raise an Error with the configured message, or the default
\* one, exactly for null and undefined, for the falsy values and for the
\* values of length 0, and return any other input as it is; as map's
\* transform they turn the success chain into a failure with that Error, or
\* leave its value as it is.
C29_Validators ==
  (/\ checked.validator \in {"errorIfNull", "errorIfFalsy", "errorIfEmpty"}
   /\ checked.validator = "errorIfEmpty" => HasLength(checked.value))
  => LET message == IF checked.configured.given THEN checked.configured.text
                    ELSE DefaultMessage(checked.validator)
         refused == Refused(checked.validator, checked.value)
     IN /\ (CalledAlone /\ refused) =>
             (checked.out.kind = "throw" /\ checked.out.x = Err(message))
        /\ (CalledAlone /\ ~refused) =>
             (checked.out.kind = "value" /\ checked.out.v = checked.value)
        /\ (RanInMap /\ refused) =>
             (~chains[2].res.isOk /\ chains[2].res = Failure(Err(message)))
        /\ (RanInMap /\ ~refused) =>
             (chains[2].res.isOk /\ chains[2].res.value = checked.value)

\* errorIfFalsy() refuses 0 with the default message.
C29_Witness ==
  /\ checked.validator = "errorIfFalsy"
  /\ checked.value = Num(0)
  /\ checked.out.kind = "throw" /\ checked.out.x = Err("Value is falsy")

\* errorIfEmpty("custom") on a pending chain that resolved to []: the map
\* chain fails with the configured message.
C29_WitnessMap ==
  /\ checked.validator = "errorIfEmpty"
  /\ checked.configured = [given |-> TRUE, text |-> "custom"]
  /\ RanInMap
  /\ chains[1].kind = "promise" /\ chains[1].res.isOk /\ chains[1].res.value = Arr(<<>>)
  /\ ~chains[2].res.isOk /\ chains[2].res.error = Err("custom")

\* errorIfNull keeps a falsy value that is not null.
C29_WitnessKeeps ==
  /\ checked.validator = "errorIfNull"
  /\ checked.value = Str("")
  /\ RanInMap
  /\ chains[2].res.isOk /\ chains[2].res.value = Str("")

\* C30 (as claimed): errorIf(check)(v) raises an Error whose message is the
\* string check(v) returned whenever check(v) returns a string, and returns v
\* as it is when check(v) returns false or undefined.
C30_ErrorIf ==
  (checked.validator = "errorIf" /\ CalledAlone) =>
     /\ checked.check.kind = "string" =>
          (checked.out.kind = "throw" /\ checked.out.x = Err(checked.check.msg))
     /\ checked.check.kind \in {"boolean", "undefined"} =>
          (checked.out.kind = "value" /\ checked.out.v = checked.value)

----------------------------------------------------------------------------
(* safe(init) (index.ts): the constructor that dispatches on its argument.  *)

\* Chains built after safe(init) in SafeSpec.
MaxSafeChains == 2

\* A function taken as a value.
FunctionValue == "[Function]"

\* What safe is called with: nothing, undefined, a function (u: what it does
\* when it is invoked) or another value (u: the value, plain or a promise).
Inits ==
  {[type |-> "absent", u |-> NoOutcome], [type |-> "undefined", u |-> Returns(Undefined)]}
    \cup {[type |-> "function", u |-> fn] : fn \in CallbackOutcomes(1)}
    \cup {[type |-> "value", u |-> value] : value \in ValueInputs(1)}

\* Mutant of safe: no isFunction test, a function is wrapped as a value.
safeNoFunctionTest(init) ==
  IF init.type \in {"absent", "undefined"} THEN safeEmpty
  ELSE IF init.type = "function" THEN safeValue(Returns(FunctionValue))
  ELSE safeValue(init.u)

safe(init) ==
  IF init.type \in {"absent", "undefined"} THEN safeEmpty
  ELSE IF init.type = "function" THEN safeExec(init.u)
  ELSE safeValue(init.u)

\* safe(init)
Safe ==
  /\ chains = <<>>
  /\ given = NoError
  /\ \E init \in Inits :
       LET r == safe(init)
       IN /\ chains' = IF r.thrown = NoError
                         THEN <<createChain("safe", 0, NoOutcome, r)>> ELSE <<>>
          /\ raised' = Call("safe", r.thrown)
          /\ given' = init
  /\ UNCHANGED <<made, retryVars, checked, settled, reads>>

\* A method called on the chain safe returned.
SafeThen ==
  /\ Len(chains) < MaxSafeChains
  /\ \E i \in Tip : \E op \in Methods : Method(i, op)

SafeNext ==
  \/ Safe
  \/ SafeThen
  \/ \E i \in Tip : OrElse(i)
  \/ \E i \in Tip : Unwrap(i)
  \/ \E j \in 1..Len(chains) : Continue(j)
  \/ \E j \in 1..Len(chains) : SettleCallback(j)

SafeSpec == Init /\ [][SafeNext]_vars

\* The chain c, and c once the promise its callback returned has settled.
Settles(c) ==
  IF c.wait = "cb"
    THEN {c, [c EXCEPT !.wait = "none", !.res = settle(c.aw), !.aw = NoOutcome]}
    ELSE {c}

\* The chain a constructor call returns, under the name safe.
AsSafe(r) == createChain("safe", 0, NoOutcome, r)

\* C31: the chain safe(init) returns is the chain safeEmpty() returns when init
\* is left out or undefined (an immediate success with an absent value, no
\* function invoked), the chain safeExec(init) returns when init is a function
\* (invoked once, its result or raise captured), and the chain
\* safeValue(init) returns for any other value.
C31_Dispatch ==
  (given # NoError /\ Len(chains) >= 1) =>
    LET c == chains[1]
    IN /\ given.type \in {"absent", "undefined"} =>
            /\ c = AsSafe(safeEmpty)
            /\ c.kind = "result" /\ c.res = ok(Undefined) /\ c.calls = 0
       /\ given.type = "function" =>
            /\ c \in Settles(AsSafe(safeExec(given.u)))
            /\ c.calls = 1 /\ c.out = given.u
            /\ (given.u.kind = "value" => c.res = ok(given.u.v))
            /\ (given.u.kind = "throw" => c.res = fail(given.u.x))
       /\ given.type = "value" => c \in Settles(AsSafe(safeValue(given.u)))

\* safe(fn) with a function that raises: the raise is captured.
C31_Witness ==
  /\ Len(chains) >= 1
  /\ given.type = "function" /\ given.u = Throws(Err("e1"))
  /\ chains[1].kind = "result" /\ ~chains[1].res.isOk
  /\ chains[1].res.error = Err("e1")

\* safe() and safe(42).
C31_WitnessEmpty ==
  /\ Len(chains) >= 1 /\ given.type = "absent" /\ unwrap(chains[1]) = Returns(Undefined)
C31_WitnessValue ==
  /\ Len(chains) >= 1 /\ given.type = "value" /\ given.u = Returns(ValueOf(1))
  /\ unwrap(chains[1]) = Returns(ValueOf(1))

----------------------------------------------------------------------------
(* Chains whose callbacks return promises, with the settling of a callback's *)
(* promise told from the settling of the chain that waits for it.            *)

\* Chains built in PendingSpec.
MaxPendingChains == 3

\* What the function of step j does in PendingSpec.
PendingOutcomes(op, j) ==
  IF op = "flatMap"
    THEN {SafeOk(TRUE, ValueOf(j)), SafeFail(FALSE, Err("e" \o ToString(j)))}
    ELSE {Returns(ValueOf(j)), Resolving(ValueOf(j)), Rejecting(Err("e" \o ToString(j)))}

\* The callback of chain c ran and returned a pending value.
ReturnedPending(c) ==
  c.called /\ (isPromiseLike(c.out) \/ (c.out.kind = "safe" /\ c.out.async))

PendingRoot ==
  /\ chains = <<>>
  /\ \E fn \in PendingOutcomes("map", 1) : Returned("safeExec", 0, NoOutcome, safeExec(fn))

PendingMethod(i, op) ==
  /\ Len(chains) < MaxPendingChains
  /\ \E u \in PendingOutcomes(op, Len(chains) + 1) :
       Returned(op, i, NoOutcome, next(chains[i], op, u))

PendingContinue(j) ==
  /\ chains[j].wait = "prev"
  /\ chains[chains[j].parent].wait = "none"
  /\ \E u \in PendingOutcomes(chains[j].op, j) :
       LET c == chains[j]
           r == thenUpdate(chains[c.parent].res, c.op, u)
       IN chains' = [chains EXCEPT ![j] = createChain(c.op, c.parent, c.fb, r)]
  /\ UNCHANGED <<raised, given, made, retryVars, checked, settled, reads>>

\* The pending value the callback of chain j returned settles.
PromiseSettles(j) ==
  /\ ReturnedPending(chains[j])
  /\ j \notin settled
  /\ settled' = settled \cup {j}
  /\ UNCHANGED <<chains, raised, given, made, retryVars, checked, reads>>

\* The reactions update attached to that pending value run: chain j's result
\* resolves.
React(j) ==
  /\ j \in settled
  /\ SettleCallback(j)

PendingNext ==
  \/ PendingRoot
  \/ \E i \in Tip : \E op \in Methods : PendingMethod(i, op)
  \/ \E i \in Tip : Unwrap(i)
  \/ \E j \in 1..Len(chains) : PendingContinue(j)
  \/ \E j \in 1..Len(chains) : PromiseSettles(j)
  \/ \E j \in 1..Len(chains) : React(j)

PendingSpec == Init /\ [][PendingNext]_vars

\* The chains built by a method called on chain j.
ChildrenOf(j) == {k \in Ids : chains[k].parent = j}

\* C32: while the pending value an effect or ifOk callback returned has not
\* settled, the chain that effect or ifOk returned has not settled: it is a
\* pending chain whose unwrap() and isOk have not resolved, and the callback
\* of the next step has not been invoked.
C32_EffectWaits ==
  \A j \in Ids :
    (/\ chains[j].op \in {"effect", "ifOk"}
     /\ ReturnedPending(chains[j])
     /\ j \notin settled)
    => /\ chains[j].kind = "promise"
       /\ ~Settled(chains[j])
       /\ unwrap(chains[j]).settle = "none"
       /\ isOk(chains[j]).settle = "none"
       /\ \A k \in ChildrenOf(j) : ~Ran(chains[k]) /\ ~chains[k].called

\* An effect callback returned a promise that has not settled, and a map was
\* called on the waiting chain.
C32_Witness ==
  \E j \in Ids :
    /\ chains[j].op = "effect" /\ ReturnedPending(chains[j]) /\ j \notin settled
    /\ ChildrenOf(j) # {}

\* The promise an ifOk callback returned has resolved: the chain holds the
\* original value and the next step's callback has run.
C32_WitnessAfter ==
  \E j \in Ids :
    /\ chains[j].op = "ifOk" /\ ReturnedPending(chains[j]) /\ j \in settled
    /\ Succeeded(chains[j]) /\ chains[j].res.value = chains[j].arg.value
    /\ \E k \in ChildrenOf(j) : chains[k].called

\* Chain j's callback returned a pending value, and it is not a watch
\* consumer's: that value settles.
CallbackSettles(j) ==
  /\ j \in Ids
  /\ chains[j].op # "watch"
  /\ PromiseSettles(j)

\* The reactions of chain j: to its callback's pending value, and to the
\* previous chain's result.
Reacts(j) == j \in Ids /\ React(j)
Continues(j) == j \in Ids /\ PendingContinue(j)

\* PendingSpec where every pending value a callback returned settles, except
\* those watch consumers return, and where the reactions attached with then run
\* once they can.
FairPendingSpec ==
  /\ Init
  /\ [][PendingNext]_vars
  /\ \A j \in 1..MaxPendingChains :
       WF_vars(CallbackSettles(j)) /\ WF_vars(Reacts(j)) /\ WF_vars(Continues(j))

\* Chain j has settled: its unwrap() and isOk no longer wait.
HasSettled(j) ==
  /\ j \in Ids
  /\ Settled(chains[j])
  /\ chains[j].kind = "promise" =>
       (unwrap(chains[j]).settle \in {"resolve", "reject"} /\ isOk(chains[j]).settle = "resolve")

\* C33: when the pending values callbacks return settle, every chain that is
\* built settles, whether or not the pending values watch consumers returned
\* ever settle.
C33_Settles == \A j \in 1..MaxPendingChains : (j \in Ids) ~> HasSettled(j)

\* A watch consumer returned a pending value that has not settled; the chain
\* watch returned, after a pending chain, has settled, and so has its child.
C33_Witness ==
  \E j \in Ids :
    /\ chains[j].op = "watch" /\ ReturnedPending(chains[j]) /\ j \notin settled
    /\ HasParent(j) /\ ParentOf(j).kind = "promise"
    /\ HasSettled(j)
    /\ \E k \in ChildrenOf(j) : HasSettled(k) /\ chains[k].called

\* The invocations of fn whose failure has been caught.
Caught ==
  {k \in 1..Len(tries) :
     AttemptFailed(tries[k]) /\ ~(k = Len(tries) /\ run.pc = "await")}

\* C34: the wrapped function waits once after each caught failure of an
\* attempt that is not the last one allowed, and at no other time: not before
\* the first attempt, not after a success, not after the last failure, so a
\* run that ends after n >= 1 failed or succeeded attempts has made n - 1
\* waits; the wait after attempt i (from 0) lasts delay ms (1000 when the
\* option is left out), or delay * 2^i ms with backoff.
C34_Waits ==
  /\ Len(run.waits) = Cardinality({k \in Caught : k < run.maxTries})
  /\ \A k \in 1..Len(run.waits) :
       run.waits[k] = IF run.useBackoff THEN run.delay * 2^(k - 1) ELSE run.delay
  /\ Len(tries) = 0 => run.waits = <<>>
  /\ run.pc = "delay" => Len(run.waits) = Len(tries)
  /\ run.pc = "await" => Len(run.waits) = Len(tries) - 1
  /\ (RetryDone /\ Len(tries) >= 1) => Len(run.waits) = Len(tries) - 1

\* Three attempts fail with backoff and a delay of 10 ms: waits of 10 and 20 ms.
C34_Witness ==
  /\ run.pc = "rejected"
  /\ Len(tries) = 3
  /\ run.useBackoff /\ run.delay = 10
  /\ run.waits = <<10, 20>>

\* No option but maxTries: the waits last 1000 ms; the second attempt succeeds
\* and no wait follows it.
C34_WitnessDefault ==
  /\ run.pc = "resolved"
  /\ Len(tries) = 2
  /\ run.waits = <<1000>>

----------------------------------------------------------------------------
(* The deprecated methods next to their replacements: effect and ifOk, catch *)
(* and ifFail, called on the same chain with the same function.              *)

\* Pairs of calls made in AliasSpec.
MaxAliasPairs == 2

\* The replacement of a deprecated method.
Alias(op) == IF op = "effect" THEN "ifOk" ELSE "ifFail"
Deprecated == {"effect", "catch"}

AliasRoot ==
  /\ chains = <<>>
  /\ \E fn \in CallbackOutcomes(1) : Returned("safeExec", 0, NoOutcome, safeExec(fn))

\* chain.effect(f) and chain.ifOk(f), or chain.catch(h) and chain.ifFail(h), on
\* chain i; u is what the function does each time it is invoked.
AliasPair(i, op) ==
  /\ Len(chains) < 2 * MaxAliasPairs
  /\ \E u \in CallbackOutcomes(Len(chains) + 1) :
       chains' = chains \o <<createChain(op, i, NoOutcome, next(chains[i], op, u)),
                            createChain(Alias(op), i, NoOutcome, next(chains[i], Alias(op), u))>>
  /\ raised' = NoRaise
  /\ UNCHANGED <<resultVars, retryVars, checked, settled, reads>>

\* The two calls of a pair: chain j and the chain built right after it.
IsPair(j) ==
  /\ j + 1 <= Len(chains)
  /\ chains[j].op \in Deprecated
  /\ chains[j + 1].op = Alias(chains[j].op)

\* The chain both were called on has resolved: the two continuations run, and
\* the function does the same in both.
ContinuePair(j) ==
  /\ IsPair(j)
  /\ chains[j].wait = "prev"
  /\ chains[chains[j].parent].wait = "none"
  /\ \E u \in CallbackOutcomes(j) :
       LET prev == chains[chains[j].parent].res
       IN chains' = [chains EXCEPT
            ![j] = createChain(chains[j].op, chains[j].parent, NoOutcome,
                               thenUpdate(prev, chains[j].op, u)),
            ![j + 1] = createChain(chains[j + 1].op, chains[j].parent, NoOutcome,
                                   thenUpdate(prev, chains[j + 1].op, u))]
  /\ UNCHANGED <<raised, given, made, retryVars, checked, settled, reads>>

AliasNext ==
  \/ AliasRoot
  \/ \E i \in Ids : \E op \in Deprecated : i >= Len(chains) - 1 /\ AliasPair(i, op)
  \/ \E j \in Ids : ContinuePair(j)
  \/ \E j \in Ids : SettleCallback(j)
  \/ \E i \in Ids : Unwrap(i)

AliasSpec == Init /\ [][AliasNext]_vars

\* What can be told of chain c from outside once the pending value its
\* callback returned has settled, whatever method built it.
Observed(c) ==
  LET d == IF c.wait = "cb"
             THEN [c EXCEPT !.wait = "none", !.res = settle(c.aw), !.aw = NoOutcome]
             ELSE c
  IN [d EXCEPT !.op = "method"]

\* C35: effect(f) and ifOk(f), and catch(h) and ifFail(h), called on the same
\* chain with a function that behaves the same way, give chains that are
\* immediate or pending alike, that run their callback at the same time, with
\* the same argument and as often, and that settle to the same result.
C35_Aliases ==
  \A j \in Ids :
    IsPair(j) =>
      /\ chains[j].kind = chains[j + 1].kind
      /\ Ran(chains[j]) <=> Ran(chains[j + 1])
      /\ chains[j].called = chains[j + 1].called
      /\ chains[j].calls = chains[j + 1].calls
      /\ chains[j].arg = chains[j + 1].arg
      /\ Observed(chains[j]) = Observed(chains[j + 1])
      /\ (Settled(chains[j]) /\ Settled(chains[j + 1])) =>
           /\ unwrap(chains[j]) = unwrap(chains[j + 1])
           /\ isOk(chains[j]) = isOk(chains[j + 1])

\* catch and ifFail on a pending failure, the handler recovering with a
\* promise: both chains settled to the recovered value.
C35_Witness ==
  \E j \in Ids :
    /\ IsPair(j) /\ chains[j].op = "catch"
    /\ chains[chains[j].parent].kind = "promise"
    /\ chains[j].called /\ isPromiseLike(chains[j].out)
    /\ Succeeded(chains[j]) /\ Succeeded(chains[j + 1])

\* effect and ifOk with a function that rejects: both chains failed.
C35_WitnessEffect ==
  \E j \in Ids :
    /\ IsPair(j) /\ chains[j].op = "effect"
    /\ chains[j].called /\ chains[j].out.settle = "reject"
    /\ Failed(chains[j]) /\ Failed(chains[j + 1])

\* The callback of chain c ran and raised, rejected, or returned a failed Safe.
CallbackFailed(c) ==
  /\ c.called
  /\ c.op # "watch"
  /\ c.out.kind = "throw" \/ c.out.settle = "reject"

\* C36: the promise a pending chain holds, once settled, has resolved to a
\* Result; when the chain's callback raised or rejected, it has resolved to
\* the failure made from that reason; isOk of a failed pending chain resolves
\* to false, and only unwrap() turns the failure into a rejection.
C36_NeverRejects ==
  \A j \in Ids :
    (chains[j].kind = "promise" /\ Settled(chains[j])) =>
      /\ DOMAIN chains[j].res = {"isOk", "error", "value"}
      /\ chains[j].res.isOk \in BOOLEAN
      /\ CallbackFailed(chains[j]) => chains[j].res = Failure(normalizeError(chains[j].out.x))
      /\ ~chains[j].res.isOk =>
           /\ isOk(chains[j]) = Resolving("false")
           /\ unwrap(chains[j]) = Rejecting(chains[j].res.error)

\* A callback that ran after its pending predecessor raised a string: the
\* chain's promise resolved to a failure.
C36_Witness ==
  \E j \in Ids :
    /\ HasParent(j) /\ ParentOf(j).kind = "promise"
    /\ chains[j].called /\ chains[j].out = Throws(Str("s2"))
    /\ Settled(chains[j]) /\ chains[j].res = Failure(Err("s2"))

\* A callback's promise rejected.
C36_WitnessReject ==
  \E j \in Ids :
    /\ chains[j].called /\ chains[j].out.kind = "promise" /\ chains[j].out.settle = "reject"
    /\ Settled(chains[j]) /\ isOk(chains[j]) = Resolving("false")

----------------------------------------------------------------------------
(* Reading a chain: unwrap(), isOk and orElse, any number of times, while   *)
(* the chain is built and settles.                                          *)

\* Reads made in ReadSpec.
MaxReads == 2

ReadRoot ==
  /\ chains = <<>>
  /\ \E fn \in BranchOutcomes("map", 1) : Returned("safeExec", 0, NoOutcome, safeExec(fn))

\* A method called on the chain the constructor returned, once.
ReadMethod(i, op) ==
  /\ \A k \in Held : chains[k].parent = 0
  /\ \E u \in BranchOutcomes(op, Len(chains) + 1) :
       Returned(op, i, NoOutcome, next(chains[i], op, u))

\* A read of chain i: which one, the chain orElse built (0 for the others) and
\* what the caller got.
Read(op, i, inner, got) == [op |-> op, chain |-> i, inner |-> inner, got |-> got]

\* Mutant of ReadUnwrap: unwrap() runs the chain's callback again.
ReadUnwrapAgain(i) ==
  /\ Len(reads) < MaxReads
  /\ LET got == unwrap(chains[i])
     IN /\ reads' = Append(reads, Read("unwrap", i, 0, got))
        /\ raised' = Call("unwrap", IF got.kind = "throw" THEN got.x ELSE NoError)
  /\ chains' = [chains EXCEPT ![i].calls = IF chains[i].called THEN @ + 1 ELSE @]
  /\ UNCHANGED <<given, made, retryVars, checked, settled>>

\* chain.unwrap()
ReadUnwrap(i) ==
  /\ Len(reads) < MaxReads
  /\ LET got == unwrap(chains[i])
     IN /\ reads' = Append(reads, Read("unwrap", i, 0, got))
        /\ raised' = Call("unwrap", IF got.kind = "throw" THEN got.x ELSE NoError)
  /\ UNCHANGED <<chains, given, made, retryVars, checked, settled>>

\* chain.isOk
ReadIsOk(i) ==
  /\ Len(reads) < MaxReads
  /\ reads' = Append(reads, Read("isOk", i, 0, isOk(chains[i])))
  /\ UNCHANGED <<chains, raised, given, made, retryVars, checked, settled>>

\* chain.orElse(fallback), each time with the same plain fallback.
ReadOrElse(i) ==
  /\ Len(reads) < MaxReads
  /\ LET fallback == Returns(ValueOf(0))
         inner == createChain("orElse", i, fallback, next(chains[i], "orElse", fallback))
         got == unwrap(inner)
     IN /\ chains' = Append(chains, inner)
        /\ reads' = Append(reads, Read("orElse", i, Len(chains) + 1, got))
        /\ raised' = Call("orElse", IF got.kind = "throw" THEN got.x ELSE NoError)
  /\ UNCHANGED <<given, made, retryVars, checked, settled>>

ReadNext ==
  \/ ReadRoot
  \/ \E i \in Tip : \E op \in Methods : ReadMethod(i, op)
  \/ \E i \in Held : ReadUnwrap(i)
  \/ \E i \in Held : ReadIsOk(i)
  \/ \E i \in Held : ReadOrElse(i)
  \/ \E j \in 1..Len(chains) : BranchContinue(j)
  \/ \E j \in 1..Len(chains) : SettleCallback(j)

ReadSpec == Init /\ [][ReadNext]_vars

\* What read r yields in the end: what it returned, or, for a promise that
\* was pending when it was returned, what the chain it is derived from gives
\* now.
Yields(r) ==
  IF r.got.kind = "promise" /\ r.got.settle = "none"
    THEN IF r.op = "unwrap" THEN unwrap(chains[r.chain])
         ELSE IF r.op = "isOk" THEN isOk(chains[r.chain])
         ELSE unwrap(chains[r.inner])
    ELSE r.got

\* Everything read r waits for has settled.
ReadSettled(r) ==
  /\ Settled(chains[r.chain])
  /\ r.inner # 0 => Settled(chains[r.inner])

\* C37: a read invokes no callback: it leaves every chain built so far as it
\* is, callback counts included; a callback runs when its step is built or
\* when its pending predecessor has settled, and never again; and two reads
\* of the same kind of the same chain yield the same outcome and value or
\* error.
C37_Reads ==
  /\ [](\A a, b \in 1..Len(reads) :
          (/\ reads[a].chain = reads[b].chain
           /\ reads[a].op = reads[b].op
           /\ ReadSettled(reads[a]) /\ ReadSettled(reads[b]))
          => /\ reads[a].got.kind = reads[b].got.kind
             /\ Yields(reads[a]) = Yields(reads[b]))
  /\ [][/\ reads' # reads => \A j \in Ids : chains'[j] = chains[j]
        /\ \A j \in Ids :
             /\ Ran(chains[j]) =>
                  (chains'[j].calls = chains[j].calls /\ chains'[j].out = chains[j].out)
             /\ Settled(chains[j]) => chains'[j] = chains[j]]_vars

\* unwrap() read twice on a chain whose callback ran once: before and after
\* the chain settled.
C37_Witness ==
  /\ Len(reads) = 2
  /\ reads[1].op = "unwrap" /\ reads[2].op = "unwrap"
  /\ reads[1].chain = reads[2].chain
  /\ chains[reads[1].chain].calls = 1
  /\ reads[1].got.settle = "none" /\ reads[1].got.kind = "promise"
  /\ reads[2].got.settle = "resolve"

\* orElse read twice on a failed chain: the fallback both times.
C37_WitnessOrElse ==
  /\ Len(reads) = 2
  /\ reads[1].op = "orElse" /\ reads[2].op = "orElse"
  /\ reads[1].chain = reads[2].chain
  /\ Failed(chains[reads[1].chain])
  /\ reads[1].got = Returns(ValueOf(0)) /\ reads[2].got = Returns(ValueOf(0))

\* C38 (as claimed): normalizing the error a failure Result stores gives that
\* same error, whatever value was raised, the values whose serialization
\* raises included.
C38_Idempotent ==
  MadeFailure => normalizeError(made.error) = made.error

----------------------------------------------------------------------------
(* watch with consumers that overwrite the fields of the snapshot they are  *)
(* given.                                                                    *)

\* Chains built in WatchSpec.
MaxWatchChains == 3

Fields == {"isOk", "value", "error"}

WatchRoot ==
  /\ chains = <<>>
  /\ \E fn \in CallbackOutcomes(1) : Returned("safeExec", 0, NoOutcome, safeExec(fn))

\* chain.watch(consumer), the consumer overwriting one field of its argument.
WatchOverwriting(i) ==
  /\ Len(chains) < MaxWatchChains
  /\ \E field \in Fields :
       Returned("watch", i, NoOutcome, next(chains[i], "watch", Overwriting(field)))

\* The previous chain's promise has resolved: the consumer runs.
WatchContinue(j) ==
  /\ chains[j].wait = "prev"
  /\ chains[chains[j].parent].wait = "none"
  /\ \E field \in Fields :
       LET c == chains[j]
           r == thenUpdate(chains[c.parent].res, c.op, Overwriting(field))
       IN chains' = [chains EXCEPT ![j] = createChain(c.op, c.parent, c.fb, r)]
  /\ UNCHANGED <<raised, given, made, retryVars, checked, settled, reads>>

WatchNext ==
  \/ WatchRoot
  \/ \E i \in Tip : WatchOverwriting(i)
  \/ \E i \in Ids : Unwrap(i)
  \/ \E j \in Ids : WatchContinue(j)
  \/ \E j \in Ids : SettleCallback(j)

WatchSpec == Init /\ [][WatchNext]_vars

\* C39: when a watch consumer has overwritten the isOk, value or error field
\* of the snapshot it was given, the chain watch returned still has the result
\* of the chain watch was called on, and that chain's result is still the one
\* the snapshot was copied from.
C39_Copy ==
  \A j \in Ids :
    (chains[j].op = "watch" /\ chains[j].called /\ "sets" \in DOMAIN chains[j].out)
    => /\ Settled(chains[j]) /\ Settled(ParentOf(j))
       /\ chains[j].res = ParentOf(j).res
       /\ chains[j].arg = ParentOf(j).res
       /\ written(chains[j].arg, chains[j].out) # chains[j].res
       /\ unwrap(chains[j]).v = unwrap(ParentOf(j)).v
       /\ unwrap(chains[j]).x = unwrap(ParentOf(j)).x
       /\ isOk(chains[j]).v = isOk(ParentOf(j)).v

\* The consumer overwrote isOk of a success snapshot: the chain is a success.
C39_Witness ==
  \E j \in Ids :
    /\ chains[j].op = "watch" /\ chains[j].called
    /\ chains[j].out = Overwriting("isOk")
    /\ chains[j].arg.isOk
    /\ Succeeded(chains[j]) /\ Succeeded(ParentOf(j))
    /\ chains[j].res.value = ParentOf(j).res.value

\* The consumer overwrote error of the snapshot of a pending failure.
C39_WitnessError ==
  \E j \in Ids :
    /\ chains[j].op = "watch" /\ chains[j].called
    /\ chains[j].out = Overwriting("error")
    /\ ParentOf(j).kind = "promise"
    /\ Failed(chains[j]) /\ chains[j].res.error = ParentOf(j).res.error
    /\ chains[j].res.error # Err("overwritten")

====
